---------------------------- MODULE Spec2Model ----------------------------
(***************************************************************************)
(* Model of the logbook form application (frontend/src/App.js):            *)
(*   - compressToMaxBytes, the adaptive image-compression driver           *)
(*     (specification SpecCompress);                                       *)
(*   - safeSaveEntries, the quota-safe localStorage writer                 *)
(*     (specification SpecSave);                                           *)
(*   - the component itself: mount/load, save effect, form, submit, edit,  *)
(*     delete, cancel, image upload (specification Spec).                  *)
(*                                                                         *)
(* JavaScript strings are sequences of tokens (TLA+ strings), so that      *)
(* template literals are concatenations and split() really splits.         *)
(* "" is <<>>; null and undefined are the reserved one-token values Null   *)
(* and Undefined.  An absent object field reads as Undefined.              *)
(***************************************************************************)
EXTENDS Integers, Sequences, FiniteSets, TLC

VARIABLES
    \* ---- compressToMaxBytes (one call) ----
    cpc,          \* "idle" | "loop" | "final" | "returned" | "threw"
    ci,           \* the loop counter i
    quality,      \* quality in hundredths (0.7 is 70)
    maxW, maxH,   \* current maximum dimensions
    maxBytes,     \* the target of the call
    attempts,     \* the compressor calls made so far: settings and result
    out,          \* the returned data URL
    \* ---- safeSaveEntries (one call on a given list) ----
    spc,          \* "idle" | "ready" | "done"
    sEntries,     \* the argument allEntries
    sQuota,       \* how many entries the store can take (-1: not even "[]")
    sStore,       \* the store's value of 'logbook_entries'
    sOld,         \* the value the store held when the call began
    sRes,         \* the result of the call
    \* ---- the App component and the browser's stores ----
    now,          \* the last reading of Date.now()
    entries,      \* useState: entries
    isEditing,    \* useState: isEditing
    editingId,    \* useState: editingId
    isInitialized,\* useState: isInitialized, as of the last render
    formData,     \* useState: formData
    loadPc,       \* "unmounted" | "reading" | "done": the load of the mount effect
    parsed,       \* the list the mount effect parsed, while its reads are pending
    uploads,      \* the files whose upload (read, compress, save) is in flight
    localStorage, \* the value under 'logbook_entries'
    lsQuota,      \* how many entries localStorage can take
    idb,          \* the image store: a set of [key, data] pairs, one per key
    lastSave,     \* how the last run of the save effect ended
    session,      \* while a load is pending: the entries in memory before it
    lastAct,      \* the handler that ran last, and what it was given
    \* ---- one render of the list view on given entries and filters ----
    vpc,          \* "idle" | "props" | "rendered"
    vEntries,     \* the entries of the render
    vFilterStart, \* filterStartDate
    vFilterEnd,   \* filterEndDate
    vSorted,      \* sortedEntries
    vFiltered,    \* filteredEntries
    vTotal,       \* totalMinutesAll
    \* ---- one run of reader.onload of handleImageUpload ----
    upc,          \* "idle" | "onload" | "compressing" | "saving" | "done"
    uOriginal,    \* e.target.result: the file as a data URL
    uDataUrl,     \* let dataUrl
    uKey,         \* const key
    uNow,         \* last reading of Date.now()
    uIdb,         \* the image store
    uImage,       \* formData.dokumen_pendukung
    uImageKey,    \* formData.dokumen_pendukung_key
    uWarned,      \* console.warn of line 176 was called
    uAlerted,     \* alert of line 188 was called
    \* ---- the document generation (handleGenerateWord and its button) ----
    gpc,          \* "idle" | "gzip" | "fetch" | "text" | "blob"
    isGenerating, \* the generating flag
    includeImages,
    gEntries,     \* the entry list
    gFilterStart, \* filterStartDate
    gBody,        \* the request body
    gStarted,     \* how many requests were started
    gAlerts,      \* the messages shown by alert(), in order
    gDownloads,   \* how many documents were downloaded
    \* ---- img.onload of compressImage ----
    dpc,          \* "idle" | "loaded" | "drawn"
    width,        \* img.width
    height,       \* img.height
    maxWidth,     \* options.maxWidth
    maxHeight,    \* options.maxHeight
    targetWidth,
    targetHeight

cvars == <<cpc, ci, quality, maxW, maxH, maxBytes, attempts, out>>
svars == <<spc, sEntries, sQuota, sStore, sOld, sRes>>
avars == <<now, entries, isEditing, editingId, isInitialized, formData, loadPc,
           parsed, uploads, localStorage, lsQuota, idb, lastSave, session,
           lastAct>>
viewvars == <<vpc, vEntries, vFilterStart, vFilterEnd, vSorted, vFiltered,
              vTotal>>
uvars == <<upc, uOriginal, uDataUrl, uKey, uNow, uIdb, uImage, uImageKey,
           uWarned, uAlerted>>
gvars == <<gpc, isGenerating, includeImages, gEntries, gFilterStart, gBody,
           gStarted, gAlerts, gDownloads>>
dvars == <<dpc, width, height, maxWidth, maxHeight, targetWidth,
           targetHeight>>
ovars == <<viewvars, uvars, gvars, dvars>>
vars == <<cvars, svars, avars, ovars>>

\* ------------------------------------------------------------------------
\* JavaScript values
\* ------------------------------------------------------------------------
Null == <<"null">>
Undefined == <<"undefined">>
EmptyString == <<>>

\* !v on a string, null or undefined
Falsy(v) == v \in {EmptyString, Null, Undefined}

\* a || b
OrElse(a, b) == IF Falsy(a) THEN b ELSE a

Min(a, b) == IF a <= b THEN a ELSE b
Max(a, b) == IF a >= b THEN a ELSE b

\* Number.prototype.toString for an integer >= 0: its decimal digits
DigitToken(d) ==
    CASE d = 0 -> "0" [] d = 1 -> "1" [] d = 2 -> "2" [] d = 3 -> "3"
      [] d = 4 -> "4" [] d = 5 -> "5" [] d = 6 -> "6" [] d = 7 -> "7"
      [] d = 8 -> "8" [] OTHER -> "9"
RECURSIVE NumToString(_)
NumToString(n) ==
    IF n < 10 THEN <<DigitToken(n)>>
    ELSE NumToString(n \div 10) \o <<DigitToken(n % 10)>>

\* The value of an <input type="time"> and of an <input type="date">:
\* "HH:MM" and "YYYY-MM-DD", one token per character.
TwoDigits(n) == <<DigitToken(n \div 10), DigitToken(n % 10)>>
TimeText(h, m) == TwoDigits(h) \o <<":">> \o TwoDigits(m)
DateText(y, m, d) ==
    NumToString(y) \o <<"-">> \o TwoDigits(m) \o <<"-">> \o TwoDigits(d)

\* An entry object.  Every field the code ever reads is a field of the
\* record; a field the object does not have holds Undefined.
Entry(id, tanggal, jam, jamMulai, jamSelesai, judul, rincian, dok, dokKey) ==
    [id |-> id, tanggal |-> tanggal, jam |-> jam,
     jam_mulai |-> jamMulai, jam_selesai |-> jamSelesai,
     judul_kegiatan |-> judul, rincian_kegiatan |-> rincian,
     dokumen_pendukung |-> dok, dokumen_pendukung_key |-> dokKey]

\* An image-store key `img_${Date.now()}_${random}` and an image payload
\* (a data URL); both are strings.
ImageKey(t, r) == <<"img_">> \o NumToString(t) \o <<"_", "r">> \o NumToString(r)
Payload(f) == <<"data:", "image/", "f">> \o NumToString(f)
IsImageKey(v) == Len(v) > 0 /\ v[1] = "img_"
IsPayload(v) == Len(v) > 0 /\ v[1] = "data:"

\* ------------------------------------------------------------------------
\* Bounds of the model
\* ------------------------------------------------------------------------
\* longest base64 body the compressor returns, in characters
MaxBody == 3
\* largest target passed to compressToMaxBytes
MaxTarget == 1
\* longest list handed to safeSaveEntries in SpecSave
MaxSaveLen == 6
\* most entries the list of the component holds
MaxEntries == 2
\* last reading of the clock
MaxClock == 2
\* how many different files the user can pick
MaxFiles == 1
\* how many different suffixes Math.random() gives an image key
MaxRand == 1
\* longest list the list view is rendered on
MaxViewLen == 3

\* ------------------------------------------------------------------------
\* compressToMaxBytes
\* ------------------------------------------------------------------------
\* A data URL produced by canvas.toDataURL: a header ending in ',' and a
\* base64 body of the given length.
DataUrl(bodyLen) == [hdr |-> TRUE, body |-> bodyLen]
NoDataUrl == [hdr |-> FALSE, body |-> 0]

\* dataUrlSizeBytes: 0 for an empty value, else floor(0.75 * body length)
\* (Math.floor(n * 0.75) is (3n) div 4 for every integer n in range).
dataUrlSizeBytes(d) ==
    IF ~d.hdr /\ d.body = 0 THEN 0 ELSE (d.body * 3) \div 4

\* if (dataUrlSizeBytes(out) <= maxBytes) return out;
MeetsTargetStrict(d, target) == dataUrlSizeBytes(d) < target
MeetsTarget(d, target) == dataUrlSizeBytes(d) <= target

\* for (let i = 0; i < 8; i++)
LoopLimitShort == 8 - 1
LoopLimit == 8
StartQuality == 70
StartDim == 1280
MinDim == 480
MinQuality == 35
QualityStep == 10
QualityKnee == 50

\* Math.floor(d * 0.8) without the Math.max
ShrinkDimUnclamped(d) == (d * 4) \div 5

\* Math.max(480, Math.floor(d * 0.8))
ShrinkDim(d) == Max(MinDim, (d * 4) \div 5)

\* The adjustment after a failed attempt (lines 74-83): the next settings.
\* 0.7 - 0.1 is 0.6, 0.6 - 0.1 is 0.5 and 0.5 - 0.1 is 0.4 in IEEE doubles, and
\* max(0.35, 0.4 - 0.1) is 0.35, so hundredths are exact here.
Adjust(q, w, h) ==
    IF q > QualityKnee
    THEN [q |-> q - QualityStep, w |-> w, h |-> h]
    ELSE LET nw == ShrinkDim(w)
             nh == ShrinkDim(h)
         IN  [q |-> IF nw = MinDim /\ nh = MinDim /\ q <= QualityKnee
                    THEN Max(MinQuality, q - QualityStep) ELSE q,
              w |-> nw, h |-> nh]

\* The record of one compressor call.
Attempt(w, h, q, d) == [maxW |-> w, maxH |-> h, quality |-> q, res |-> d]

CompressStart ==
    /\ cpc = "idle"
    /\ cpc' = "loop"
    /\ ci' = 0
    /\ quality' = StartQuality
    /\ maxW' = StartDim
    /\ maxH' = StartDim
    /\ UNCHANGED <<maxBytes, attempts, out>>

\* for (i < 8): out = await compressImage(...); the compressor resolves with
\* a data URL whose body length the source image and the settings decide.
LoopResolve ==
    /\ cpc = "loop"
    /\ \E len \in 0..MaxBody :
        LET d == DataUrl(len)
            a == Adjust(quality, maxW, maxH)
        IN  /\ attempts' = Append(attempts, Attempt(maxW, maxH, quality, d))
            /\ IF MeetsTarget(d, maxBytes)
               THEN /\ cpc' = "returned"
                    /\ out' = d
                    /\ UNCHANGED <<ci, quality, maxW, maxH>>
               ELSE /\ quality' = a.q
                    /\ maxW' = a.w
                    /\ maxH' = a.h
                    /\ ci' = ci + 1
                    /\ cpc' = IF ci + 1 < LoopLimit THEN "loop" ELSE "final"
                    /\ out' = out
    /\ UNCHANGED maxBytes

\* return await compressImage(..., quality: Math.max(0.35, quality))
FinalResolve ==
    /\ cpc = "final"
    /\ \E len \in 0..MaxBody :
        LET d == DataUrl(len)
            q == Max(MinQuality, quality)
        IN  /\ attempts' = Append(attempts, Attempt(maxW, maxH, q, d))
            /\ out' = d
    /\ cpc' = "returned"
    /\ UNCHANGED <<ci, quality, maxW, maxH, maxBytes>>

\* compressImage rejects (img.onerror, or toDataURL throws): the await
\* throws and the driver has no handler, so the call ends there.
CompressReject ==
    /\ cpc \in {"loop", "final"}
    /\ cpc' = "threw"
    /\ UNCHANGED <<ci, quality, maxW, maxH, maxBytes, attempts, out>>


\* ------------------------------------------------------------------------
\* safeSaveEntries
\* ------------------------------------------------------------------------
\* The store's value under 'logbook_entries': getItem returns null when the
\* key was never written (NoItem), else the text of a list.
NoItem == [present |-> FALSE, list |-> <<>>]
Item(list) == [present |-> TRUE, list |-> list]

\* The projection without line 96: the image field is copied as it is
ProjectEntryKeepsImage(e) ==
    Entry(e.id, e.tanggal, e.jam, Undefined, Undefined,
          e.judul_kegiatan, e.rincian_kegiatan,
          e.dokumen_pendukung, Undefined)

\* The projection of one entry (lines 90-97).  JSON.stringify drops the
\* fields that are undefined and JSON.parse gives back equal strings and
\* nulls, so the stored text is represented by the list of projected objects.
ProjectEntry(e) ==
    Entry(e.id, e.tanggal, e.jam, Undefined, Undefined,
          e.judul_kegiatan, e.rincian_kegiatan,
          OrElse(e.dokumen_pendukung_key, Null), Undefined)

entriesWithoutImages(allEntries) ==
    [k \in 1..Len(allEntries) |-> ProjectEntry(allEntries[k])]

\* arr.slice(-n) for n > 0: the last n elements (all of them if n > length)
SliceFirst(s, n) == SubSeq(s, 1, Min(n, Len(s)))
SliceLast(s, n) == SubSeq(s, Max(1, Len(s) - n + 1), Len(s))

\* localStorage.setItem of a list: it throws (quota) when the list is longer
\* than the store can take, and then leaves the old value in place.
SetItemFits(value, quota) == Len(value) <= quota

\* Math.floor(n * 0.8), which is (4n) div 5 for every integer n in range
ShrinkSliceByOne(n) == n - 1
ShrinkSlice(n) == (n * 4) \div 5

\* One setItem call, for the record of a run.
Write(value, ok) == [value |-> value, ok |-> ok]

\* What a run of safeSaveEntries leaves: the store, the alerts shown, the
\* console.error calls, the setItem calls in order, and how it ended.
SaveResult(store, alerts, logged, writes) ==
    [store |-> store, alerts |-> alerts, logged |-> logged,
     writes |-> writes, ended |-> "returned"]

\* A truncated write went through: alert(...); return;   (lines 104-106)
TruncatedSavedSilently(v, writes) == SaveResult(Item(v), 0, 0, writes)
TruncatedSaved(v, writes) == SaveResult(Item(v), 1, 0, writes)

\* Every write failed: console.error(...), and the function ends  (line 111)
GiveUpRethrows(store, writes) ==
    [store |-> store, alerts |-> 0, logged |-> 1,
     writes |-> writes, ended |-> "threw"]
GiveUp(store, writes) == SaveResult(store, 0, 1, writes)

\* while (sliceSize > 0) { try { setItem(slice(-sliceSize)); alert; return }
\*                         catch (_) { sliceSize = floor(sliceSize * 0.8) } }
\* console.error(...)
RECURSIVE RetryLoop(_, _, _, _, _)
RetryLoop(list, sliceSize, quota, store, writes) ==
    IF sliceSize > 0
    THEN LET v == SliceLast(list, sliceSize)
         IN  IF SetItemFits(v, quota)
             THEN TruncatedSaved(v, Append(writes, Write(v, TRUE)))
             ELSE RetryLoop(list, ShrinkSlice(sliceSize), quota, store,
                            Append(writes, Write(v, FALSE)))
    ELSE GiveUp(store, writes)

safeSaveEntries(allEntries, store, quota) ==
    LET list == entriesWithoutImages(allEntries)
    IN  IF SetItemFits(list, quota)
        THEN SaveResult(Item(list), 0, 0, <<Write(list, TRUE)>>)
        ELSE RetryLoop(list, Max(0, ShrinkSlice(Len(list))), quota, store,
                       <<Write(list, FALSE)>>)

\* The k-th entry of a drawn list: distinct ids in insertion order; with an
\* image it carries the payload in memory and the key of the image store.
SampleEntry(k, withImage) ==
    Entry(NumToString(k), DateText(2024, 1, 1),
          TimeText(9, 0) \o <<" - ">> \o TimeText(10, 30),
          TimeText(9, 0), TimeText(10, 30),
          <<"judul">>, <<"rincian">>,
          IF withImage THEN Payload(k) ELSE Null,
          IF withImage THEN ImageKey(k, 1) ELSE Null)

\* What the store held before the call: nothing, or an older list.
OldStores == {NoItem, Item(<<ProjectEntry(SampleEntry(0, FALSE))>>)}

\* One call of safeSaveEntries on a drawn list and store.
SaveCall ==
    /\ spc = "ready"
    /\ sRes' = safeSaveEntries(sEntries, sStore, sQuota)
    /\ sStore' = sRes'.store
    /\ spc' = "done"
    /\ UNCHANGED <<sEntries, sQuota, sOld>>

\* ------------------------------------------------------------------------
\* The image store (./lib/idb: idbSaveImage, idbGetImage, idbDeleteImage)
\* ------------------------------------------------------------------------
IdbHas(store, key) == \E x \in store : x.key = key
IdbGet(store, key) ==
    IF IdbHas(store, key)
    THEN (CHOOSE x \in store : x.key = key).data
    ELSE Null
IdbDelete(store, key) == {x \in store : x.key # key}
IdbPut(store, key, data) ==
    IdbDelete(store, key) \cup {[key |-> key, data |-> data]}

\* ------------------------------------------------------------------------
\* The App component
\* ------------------------------------------------------------------------
EmptyForm ==
    [tanggal |-> EmptyString, jam_mulai |-> EmptyString,
     jam_selesai |-> EmptyString, judul_kegiatan |-> EmptyString,
     rincian_kegiatan |-> EmptyString,
     dokumen_pendukung |-> Null, dokumen_pendukung_key |-> Null]

\* The text inputs of the form and what the user can put into each.
TextFields ==
    {"tanggal", "jam_mulai", "jam_selesai", "judul_kegiatan",
     "rincian_kegiatan"}
FieldValue(name) ==
    CASE name = "tanggal" -> DateText(2024, 1, 1)
      [] name = "jam_mulai" -> TimeText(9, 0)
      [] name = "jam_selesai" -> TimeText(10, 30)
      [] name = "judul_kegiatan" -> <<"judul">>
      [] OTHER -> <<"rincian">>

\* `${formData.jam_mulai} - ${formData.jam_selesai}`
JamCombinedNoSeparator(start, end) == start \o end
JamCombined(start, end) == start \o <<" - ">> \o end

\* jam.split(' - '): the pieces between the separators
RECURSIVE SplitFrom(_, _, _)
SplitFrom(str, k, piece) ==
    IF k > Len(str) THEN <<piece>>
    ELSE IF str[k] = " - "
         THEN <<piece>> \o SplitFrom(str, k + 1, <<>>)
         ELSE SplitFrom(str, k + 1, Append(piece, str[k]))
Split(str) == SplitFrom(str, 1, <<>>)

\* parts[k] || ''
PartOrEmpty(parts, k) ==
    IF k <= Len(parts) THEN OrElse(parts[k], EmptyString) ELSE EmptyString

\* { ...formData, jam: jamCombined, id }
FormEntry(form, id) ==
    Entry(id, form.tanggal, JamCombined(form.jam_mulai, form.jam_selesai),
          form.jam_mulai, form.jam_selesai,
          form.judul_kegiatan, form.rincian_kegiatan,
          form.dokumen_pendukung, form.dokumen_pendukung_key)

\* The load of the mount effect, per parsed entry (lines 122-129)
LoadedEntryKeepsKeyAsImage(e, dataUrl) ==
    [e EXCEPT !.dokumen_pendukung_key = e.dokumen_pendukung]
LoadedEntry(e, dataUrl) ==
    IF ~Falsy(e.dokumen_pendukung)
    THEN [e EXCEPT !.dokumen_pendukung_key = e.dokumen_pendukung,
                   !.dokumen_pendukung = dataUrl]
    ELSE [e EXCEPT !.dokumen_pendukung_key = Null,
                   !.dokumen_pendukung = Null]

\* What an earlier revision of the component (it wrote
\* JSON.stringify(entries)) left in the store: whole entries, with the raw
\* image payload, or null, in dokumen_pendukung.
LegacyEntry ==
    Entry(<<"0">>, DateText(2024, 1, 1),
          TimeText(9, 0) \o <<" - ">> \o TimeText(10, 30),
          TimeText(9, 0), TimeText(10, 30),
          <<"judul">>, <<"rincian">>,
          Payload(0), Undefined)
LegacyStores == {Item(<<LegacyEntry>>)}

\* Date.now(): the reading is the last one, or a later one.
Readings(last) == {t \in last..(last + 1) : t <= MaxClock}

\* What a handler did last.
Act(name, pos, ok, key) == [name |-> name, pos |-> pos, ok |-> ok, key |-> key]

\* How a run of safeSaveEntries ended.
SaveOutcome(res) ==
    IF res.writes[1].ok THEN "full"
    ELSE IF res.writes[Len(res.writes)].ok THEN "truncated" ELSE "failed"

\* The save effect (lines 139-143) after a render with the given entries.
SaveEffect(init, list) ==
    IF init
    THEN LET res == safeSaveEntries(list, localStorage, lsQuota)
         IN  /\ localStorage' = res.store
             /\ lastSave' = SaveOutcome(res)
    ELSE UNCHANGED <<localStorage, lastSave>>

\* The page is loaded, or loaded again: the component mounts with fresh
\* state and the mount effect (lines 116-136) reads the store, starts the
\* reads of the image store and calls setIsInitialized(true).  The save
\* effect of this first render sees isInitialized = false.
Startup ==
    /\ session' = IF localStorage.present
                  THEN [entries |-> entries, full |-> lastSave = "full"]
                  ELSE [entries |-> <<>>, full |-> FALSE]
    /\ entries' = <<>>
    /\ isEditing' = FALSE
    /\ editingId' = Null
    /\ isInitialized' = FALSE
    /\ formData' = EmptyForm
    /\ uploads' = {}
    /\ parsed' = IF localStorage.present THEN localStorage.list ELSE <<>>
    /\ loadPc' = IF localStorage.present THEN "reading" ELSE "done"
    /\ lastAct' = Act("Startup", 0, TRUE, Null)
    /\ lastSave' = "none"
    /\ UNCHANGED <<now, localStorage, lsQuota, idb>>

\* The render that setIsInitialized(true) asked for, and its save effect.
InitRender ==
    /\ loadPc # "unmounted"
    /\ ~isInitialized
    /\ isInitialized' = TRUE
    /\ SaveEffect(TRUE, entries)
    /\ lastAct' = Act("InitRender", 0, TRUE, Null)
    /\ UNCHANGED <<now, entries, isEditing, editingId, formData, loadPc,
                   parsed, uploads, lsQuota, idb, session>>

\* Promise.all(...).then(setEntries): every read of the image store resolved.
LoadResolve ==
    /\ loadPc = "reading"
    /\ entries' = [k \in 1..Len(parsed) |->
                     LoadedEntry(parsed[k],
                                 IdbGet(idb, parsed[k].dokumen_pendukung))]
    /\ loadPc' = "done"
    /\ parsed' = <<>>
    /\ session' = [entries |-> <<>>, full |-> FALSE]
    /\ SaveEffect(isInitialized, entries')
    /\ lastAct' = Act("LoadResolve",
                       IF session.full THEN Len(session.entries) ELSE 0,
                       TRUE, Null)
    /\ UNCHANGED <<now, isEditing, editingId, isInitialized, formData,
                   uploads, lsQuota, idb>>

\* .catch(() => setEntries(parsed)): a read of the image store rejected.
LoadReject ==
    /\ loadPc = "reading"
    /\ \E k \in 1..Len(parsed) : ~Falsy(parsed[k].dokumen_pendukung)
    /\ entries' = parsed
    /\ loadPc' = "done"
    /\ parsed' = <<>>
    /\ session' = [entries |-> <<>>, full |-> FALSE]
    /\ SaveEffect(isInitialized, entries')
    /\ lastAct' = Act("LoadReject", 0, FALSE, Null)
    /\ UNCHANGED <<now, isEditing, editingId, isInitialized, formData,
                   uploads, lsQuota, idb>>

\* The user acts once the component is initialised and its load has settled.
Mounted == loadPc = "done" /\ isInitialized

\* The inputs the user types into: the form is filled from the top, and
\* only its last field is emptied again.
FieldOrder ==
    <<"tanggal", "jam_mulai", "jam_selesai", "judul_kegiatan",
      "rincian_kegiatan">>
Typable(form, k, value) ==
    /\ form[FieldOrder[k]] # value
    /\ \A j \in 1..(k - 1) : ~Falsy(form[FieldOrder[j]])
    /\ \A j \in (k + 1)..Len(FieldOrder) : Falsy(form[FieldOrder[j]])
    /\ value = EmptyString => k = Len(FieldOrder)

\* handleInputChange (lines 147-153)
InputChangeHandler ==
    /\ \E k \in 1..Len(FieldOrder) :
       \E value \in {EmptyString, FieldValue(FieldOrder[k])} :
        /\ Typable(formData, k, value)
        /\ formData' = [formData EXCEPT ![FieldOrder[k]] = value]
        /\ lastAct' = Act("handleInputChange", 0, TRUE, Null)
    /\ UNCHANGED <<now, entries, isEditing, editingId, isInitialized, loadPc,
                   parsed, uploads, localStorage, lsQuota, idb, lastSave,
                   session>>

\* the user types into the form after the stored list has been loaded
InputChange ==
    /\ Mounted
    /\ InputChangeHandler

\* handleImageUpload (lines 155-169, 191): the file is checked and its read
\* is started; a file that is too big or no image is refused with an alert.
\* The user picks the file after the text above the last field.
UploadStart ==
    /\ Mounted
    /\ \A j \in 1..(Len(FieldOrder) - 1) : ~Falsy(formData[FieldOrder[j]])
    /\ \E f \in 1..MaxFiles : \E valid \in BOOLEAN :
        /\ f \notin uploads
        /\ uploads' = IF valid THEN uploads \cup {f} ELSE uploads
        /\ lastAct' = Act("handleImageUpload", f, valid, Null)
    /\ UNCHANGED <<now, entries, isEditing, editingId, isInitialized,
                   formData, loadPc, parsed, localStorage, lsQuota, idb,
                   lastSave, session>>

\* What compressToMaxBytes returned for a file.
CompressedPayload(f) == <<"data:", "image/jpeg", "f">> \o NumToString(f)

\* Whether the browser can decode the file (img.onload, else img.onerror,
\* lines 30 and 51): the files with an even number are broken images.
Decodable(f) == f % 2 = 1

\* reader.onload (lines 171-190): the compression returns or throws (then
\* the original is kept), the key is made, the image is saved and the form
\* updated; when the save fails there is an alert and the form is left alone.
UploadFinish ==
    /\ Mounted
    /\ \E f \in uploads : \E saved \in BOOLEAN : \E r \in 1..MaxRand :
       \E t \in Readings(now) :
        LET dataUrl == IF Decodable(f) THEN CompressedPayload(f)
                       ELSE Payload(f)
            key == ImageKey(t, r)
        IN  /\ now' = t
            /\ uploads' = uploads \ {f}
            /\ idb' = IF saved THEN IdbPut(idb, key, dataUrl) ELSE idb
            /\ formData' =
                 IF saved
                 THEN [formData EXCEPT !.dokumen_pendukung = dataUrl,
                                       !.dokumen_pendukung_key = key]
                 ELSE formData
            /\ lastAct' = Act("uploadFinish", f, saved, key)
    /\ UNCHANGED <<entries, isEditing, editingId, isInitialized, loadPc,
                   parsed, localStorage, lsQuota, lastSave, session>>

\* The test of line 198 without its last operand
FormIncompleteButDetail(form) ==
    \E name \in TextFields \ {"rincian_kegiatan"} : Falsy(form[name])

\* A required field of the form is empty (line 198).
FormIncomplete(form) ==
    \E name \in TextFields : Falsy(form[name])

\* saveLocal (lines 206-223): the list after a valid submit
SubmittedEntries(list, form, editing, id, clock) ==
    IF editing
    THEN [k \in 1..Len(list) |->
            IF list[k].id = id THEN FormEntry(form, id) ELSE list[k]]
    ELSE Append(list, FormEntry(form, NumToString(clock)))

\* handleSubmit (lines 195-242)
SubmitHandler ==
    /\ isEditing \/ Len(entries) < MaxEntries
    /\ IF FormIncomplete(formData)
       THEN /\ lastAct' = Act("handleSubmit", 0, FALSE, Null)
            /\ UNCHANGED <<now, entries, isEditing, editingId, formData,
                           localStorage, lastSave>>
       ELSE /\ \E t \in Readings(now) :
                 /\ now' = IF isEditing THEN now ELSE t
                 /\ entries' = SubmittedEntries(entries, formData,
                                                isEditing, editingId, t)
            /\ isEditing' = FALSE
            /\ editingId' = Null
            /\ formData' = EmptyForm
            /\ SaveEffect(TRUE, entries')
            /\ lastAct' = Act("handleSubmit", 0, TRUE, Null)
    /\ UNCHANGED <<isInitialized, loadPc, parsed, uploads, lsQuota, idb,
                   session>>

\* the user submits the form after the stored list has been loaded
Submit ==
    /\ Mounted
    /\ SubmitHandler

\* handleEdit (lines 244-259), on the row of the p-th entry
EditForm(entry) ==
    [tanggal |-> entry.tanggal,
     jam_mulai |-> PartOrEmpty(Split(entry.jam), 1),
     jam_selesai |-> PartOrEmpty(Split(entry.jam), 2),
     judul_kegiatan |-> entry.judul_kegiatan,
     rincian_kegiatan |-> entry.rincian_kegiatan,
     dokumen_pendukung |-> entry.dokumen_pendukung,
     dokumen_pendukung_key |-> OrElse(entry.dokumen_pendukung_key, Null)]

Edit ==
    /\ Mounted
    /\ \E p \in 1..Len(entries) :
        /\ formData' = EditForm(entries[p])
        /\ isEditing' = TRUE
        /\ editingId' = entries[p].id
        /\ lastAct' = Act("handleEdit", p, TRUE, Null)
    /\ UNCHANGED <<now, entries, isInitialized, loadPc, parsed, uploads,
                   localStorage, lsQuota, idb, lastSave, session>>

\* handleDelete (lines 261-271): prev.find(...) and prev.filter(...)
FirstWithId(list, id) ==
    LET hits == {k \in 1..Len(list) : list[k].id = id}
    IN  IF hits = {} THEN 0 ELSE CHOOSE k \in hits : \A j \in hits : k <= j

RECURSIVE FilterOutId(_, _)
FilterOutId(list, id) ==
    IF list = <<>> THEN <<>>
    ELSE IF Head(list).id # id
         THEN <<Head(list)>> \o FilterOutId(Tail(list), id)
         ELSE FilterOutId(Tail(list), id)

\* The image key handleDelete hands to idbDeleteImage, or Null for none.
DeletedImageKey(list, id) ==
    LET t == FirstWithId(list, id)
    IN  IF t # 0 /\ ~Falsy(list[t].dokumen_pendukung_key)
        THEN list[t].dokumen_pendukung_key ELSE Null

\* handleDelete on the row of the p-th entry; the user confirms or not, and
\* the delete in the image store goes through or fails (it is then ignored).
Delete ==
    /\ Mounted
    /\ \E p \in 1..Len(entries) : \E confirmed, deleted \in BOOLEAN :
        LET id == entries[p].id
            key == DeletedImageKey(entries, id)
        IN  IF confirmed
            THEN /\ entries' = FilterOutId(entries, id)
                 /\ idb' = IF key # Null /\ deleted
                           THEN IdbDelete(idb, key) ELSE idb
                 /\ SaveEffect(TRUE, entries')
                 /\ lastAct' = Act("handleDelete", p, TRUE, key)
            ELSE /\ lastAct' = Act("handleDelete", 0, FALSE, Null)
                 /\ UNCHANGED <<entries, idb, localStorage, lastSave>>
    /\ UNCHANGED <<now, isEditing, editingId, isInitialized, formData, loadPc,
                   parsed, uploads, lsQuota, session>>

\* handleCancelEdit (lines 273-287); the button is rendered while editing
CancelEdit ==
    /\ Mounted
    /\ isEditing
    /\ isEditing' = FALSE
    /\ editingId' = Null
    /\ formData' = EmptyForm
    /\ lastAct' = Act("handleCancelEdit", 0, TRUE, Null)
    /\ UNCHANGED <<now, entries, isInitialized, loadPc, parsed, uploads,
                   localStorage, lsQuota, idb, lastSave, session>>

\* ------------------------------------------------------------------------
\* The list view: sort, date filter, durations
\* ------------------------------------------------------------------------
\* A JavaScript number as the view computes with it: an integer, NaN, or
\* undefined (a destructured array element that is not there).
Num(n) == [kind |-> "num", val |-> n]
NaN == [kind |-> "nan", val |-> 0]
NoNum == [kind |-> "undefined", val |-> 0]
IsNaN(x) == x.kind = "nan"

\* x * 60 + y, and x - y: NaN as soon as an operand is not a number
Times60Plus(x, y) ==
    IF x.kind = "num" /\ y.kind = "num" THEN Num(x.val * 60 + y.val) ELSE NaN
Minus(x, y) ==
    IF x.kind = "num" /\ y.kind = "num" THEN Num(x.val - y.val) ELSE NaN

IsDigit(tok) ==
    tok \in {"0", "1", "2", "3", "4", "5", "6", "7", "8", "9"}
DigitValue(tok) ==
    CASE tok = "0" -> 0 [] tok = "1" -> 1 [] tok = "2" -> 2 [] tok = "3" -> 3
      [] tok = "4" -> 4 [] tok = "5" -> 5 [] tok = "6" -> 6 [] tok = "7" -> 7
      [] tok = "8" -> 8 [] OTHER -> 9

\* parseInt(v, 10): leading blanks are skipped, a sign is read, then the
\* longest run of digits; NaN when there is no digit there.
RECURSIVE DigitsFrom(_, _, _)
DigitsFrom(str, k, acc) ==
    IF k <= Len(str) /\ IsDigit(str[k])
    THEN DigitsFrom(str, k + 1, 10 * acc + DigitValue(str[k]))
    ELSE acc
RECURSIVE parseInt(_)
parseInt(str) ==
    IF str = <<>> THEN NaN
    ELSE IF Head(str) = " " THEN parseInt(Tail(str))
    ELSE IF Head(str) = "-"
         THEN IF Len(str) >= 2 /\ IsDigit(str[2])
              THEN Num(0 - DigitsFrom(str, 2, 0)) ELSE NaN
    ELSE IF IsDigit(Head(str)) THEN Num(DigitsFrom(str, 1, 0))
    ELSE NaN

\* str.split(sep) for a one-token separator
RECURSIVE SplitOnFrom(_, _, _, _)
SplitOnFrom(str, sep, k, piece) ==
    IF k > Len(str) THEN <<piece>>
    ELSE IF str[k] = sep
         THEN <<piece>> \o SplitOnFrom(str, sep, k + 1, <<>>)
         ELSE SplitOnFrom(str, sep, k + 1, Append(piece, str[k]))
SplitOn(str, sep) == SplitOnFrom(str, sep, 1, <<>>)

\* const [h, m] = text.split(':').map((v) => parseInt(v, 10)): the k-th
\* element, undefined when the array is shorter
HourMinute(text, k) ==
    LET parts == SplitOn(text, ":")
    IN  IF k <= Len(parts) THEN parseInt(parts[k]) ELSE NoNum

\* parseMinutesFromJam without the test of line 385: the difference as it is
parseMinutesSigned(jam) ==
    IF Falsy(jam) THEN 0
    ELSE LET parts == Split(jam)
         IN  IF Len(parts) # 2 THEN 0
             ELSE LET start == OrElse(parts[1], EmptyString)
                      end == OrElse(parts[2], EmptyString)
                      sh == HourMinute(start, 1)
                      sm == HourMinute(start, 2)
                      eh == HourMinute(end, 1)
                      em == HourMinute(end, 2)
                  IN  IF IsNaN(sh) \/ IsNaN(sm) \/ IsNaN(eh) \/ IsNaN(em)
                      THEN 0
                      ELSE LET diff == Minus(Times60Plus(eh, em),
                                             Times60Plus(sh, sm))
                           IN  IF diff.kind = "num" THEN diff.val ELSE 0

\* parseMinutesFromJam (lines 374-386)
parseMinutesFromJam(jam) ==
    IF Falsy(jam) THEN 0
    ELSE LET parts == Split(jam)
         IN  IF Len(parts) # 2 THEN 0
             ELSE LET start == OrElse(parts[1], EmptyString)
                      end == OrElse(parts[2], EmptyString)
                      sh == HourMinute(start, 1)
                      sm == HourMinute(start, 2)
                      eh == HourMinute(end, 1)
                      em == HourMinute(end, 2)
                  IN  IF IsNaN(sh) \/ IsNaN(sm) \/ IsNaN(eh) \/ IsNaN(em)
                      THEN 0
                      ELSE LET diff == Minus(Times60Plus(eh, em),
                                             Times60Plus(sh, sm))
                           IN  IF diff.kind = "num" /\ diff.val > 0
                               THEN diff.val ELSE 0

\* getStartMinutes (lines 388-394)
getStartMinutes(jam) ==
    IF Falsy(jam) THEN Num(0)
    ELSE LET start == OrElse(Split(jam)[1], EmptyString)
             h == HourMinute(start, 1)
             m == HourMinute(start, 2)
         IN  IF IsNaN(h) \/ IsNaN(m) THEN Num(0) ELSE Times60Plus(h, m)

\* Days from 1970-01-01 to the civil date y-m-d.
DaysFromCivil(y, m, d) ==
    LET yy == IF m <= 2 THEN y - 1 ELSE y
        era == yy \div 400
        yoe == yy - era * 400
        mp == (m + 9) % 12
        doy == (153 * mp + 2) \div 5 + d - 1
        doe == yoe * 365 + yoe \div 4 - yoe \div 100 + doy
    IN  era * 146097 + doe - 719468

\* new Date(text).getTime() for a date-only text "YYYY-MM-DD" (UTC
\* midnight), in days instead of milliseconds; NaN for another text.
DateTime(text) ==
    IF /\ Len(text) = 10
       /\ text[5] = "-" /\ text[8] = "-"
       /\ \A k \in {1, 2, 3, 4, 6, 7, 9, 10} : IsDigit(text[k])
    THEN LET y == DigitsFrom(text, 1, 0)
             m == DigitsFrom(text, 6, 0)
             d == DigitsFrom(text, 9, 0)
         IN  IF m \in 1..12 /\ d \in 1..31
             THEN Num(DaysFromCivil(y, m, d)) ELSE NaN
    ELSE NaN

\* compareByDateTime without its last line: the date alone decides
compareByDateOnly(a, b) ==
    LET ta == IF ~Falsy(a.tanggal) THEN DateTime(a.tanggal) ELSE Num(0)
        tb == IF ~Falsy(b.tanggal) THEN DateTime(b.tanggal) ELSE Num(0)
    IN  IF IsNaN(ta) \/ IsNaN(tb) \/ ta.val # tb.val
        THEN Minus(ta, tb)
        ELSE Num(0)

\* compareByDateTime (lines 396-403); a !== b is true when one is NaN
compareByDateTime(a, b) ==
    LET ta == IF ~Falsy(a.tanggal) THEN DateTime(a.tanggal) ELSE Num(0)
        tb == IF ~Falsy(b.tanggal) THEN DateTime(b.tanggal) ELSE Num(0)
    IN  IF IsNaN(ta) \/ IsNaN(tb) \/ ta.val # tb.val
        THEN Minus(ta, tb)
        ELSE Minus(getStartMinutes(a.jam), getStartMinutes(b.jam))

\* What Array.prototype.sort makes of a comparator's result: NaN counts as 0.
ComesAfter(a, b) ==
    LET c == compareByDateTime(a, b)
    IN  c.kind = "num" /\ c.val > 0

\* [...entries].sort(compareByDateTime) (lines 405-407): the sort is stable,
\* so each element goes behind the elements that do not come after it.
RECURSIVE SortInsert(_, _)
SortInsert(sorted, e) ==
    IF sorted = <<>> THEN <<e>>
    ELSE IF ComesAfter(sorted[Len(sorted)], e)
         THEN Append(SortInsert(SubSeq(sorted, 1, Len(sorted) - 1), e),
                     sorted[Len(sorted)])
         ELSE Append(sorted, e)
RECURSIVE sortedEntries(_)
sortedEntries(list) ==
    IF list = <<>> THEN <<>>
    ELSE SortInsert(sortedEntries(SubSeq(list, 1, Len(list) - 1)),
                    list[Len(list)])

\* d < start and d > end on Date objects: false when one is invalid
DateBefore(x, y) == x.kind = "num" /\ y.kind = "num" /\ x.val < y.val

\* The test of filteredEntries (lines 412-418) on one entry
PassesFilter(e, filterStart, filterEnd) ==
    /\ ~Falsy(e.tanggal)
    /\ ~(~Falsy(filterStart)
         /\ DateBefore(DateTime(e.tanggal), DateTime(filterStart)))
    /\ ~(~Falsy(filterEnd)
         /\ DateBefore(DateTime(filterEnd), DateTime(e.tanggal)))

RECURSIVE filteredEntries(_, _, _)
filteredEntries(sorted, filterStart, filterEnd) ==
    IF sorted = <<>> THEN <<>>
    ELSE LET rest == filteredEntries(Tail(sorted), filterStart, filterEnd)
         IN  IF PassesFilter(Head(sorted), filterStart, filterEnd)
             THEN <<Head(sorted)>> \o rest ELSE rest

\* filteredEntries.reduce((acc, e) => acc + parseMinutesFromJam(e.jam), 0)
RECURSIVE totalMinutesAll(_)
totalMinutesAll(filtered) ==
    IF filtered = <<>> THEN 0
    ELSE totalMinutesAll(SubSeq(filtered, 1, Len(filtered) - 1))
         + parseMinutesFromJam(filtered[Len(filtered)].jam)

\* The time ranges and dates of the entries a render is given: ranges as
\* the form writes them (end after, before and at the start), and ranges of
\* foreign data (one part only, characters behind a number, no number).
TimeRange(h1, m1, h2, m2) == JamCombined(TimeText(h1, m1), TimeText(h2, m2))
FormJams ==
    {TimeRange(9, 0, 10, 30), TimeRange(10, 0, 9, 0), TimeRange(8, 0, 8, 0),
     TimeRange(17, 0, 18, 15)}
ForeignJams ==
    {TimeText(9, 0),
     JamCombined(TimeText(9, 0), <<"1", "0", ":", "3", "x">>),
     JamCombined(<<"a", "b", ":", "0", "0">>, TimeText(10, 30))}
ViewDates == {DateText(2024, 1, 1), DateText(2024, 1, 2)}

\* The date filters of a render: none, a first day, a last day.
ViewFilters ==
    {<<EmptyString, EmptyString>>, <<DateText(2024, 1, 2), EmptyString>>,
     <<EmptyString, DateText(2024, 1, 1)>>}

ViewEntry(k, tanggal, jam) ==
    Entry(NumToString(k), tanggal, jam, Undefined, Undefined,
          <<"judul">>, <<"rincian">>, Null, Null)

\* One render of the list view.
ViewRender ==
    /\ vpc = "props"
    /\ vSorted' = sortedEntries(vEntries)
    /\ vFiltered' = filteredEntries(vSorted', vFilterStart, vFilterEnd)
    /\ vTotal' = totalMinutesAll(vFiltered')
    /\ vpc' = "rendered"
    /\ UNCHANGED <<vEntries, vFilterStart, vFilterEnd>>

\* ------------------------------------------------------------------------
\* reader.onload of handleImageUpload (lines 171-190)
\* ------------------------------------------------------------------------
\* The target of line 174 (400 * 1024 bytes), at the scale of the body
\* lengths of the model.
UploadMaxBytes == MaxTarget

\* The file as the reader gives it: longer than what the compressor makes.
OriginalDataUrl == DataUrl(MaxBody + 1)

\* An image saved by an earlier upload, at reading 0 with the first suffix.
EarlierKey == ImageKey(0, 1)
EarlierStore == {[key |-> EarlierKey, data |-> DataUrl(1)]}

\* dataUrl after the try of lines 172-177 if the catch were missing
CompressionResultOnly(original, pc, result) == result

\* dataUrl after the try of lines 172-177: the result of compressToMaxBytes
\* when it returned, the value of line 171 when it threw.
DataUrlAfterTry(original, pc, result) ==
    IF pc = "returned" THEN result ELSE original

\* let dataUrl = e.target.result; dataUrl = await compressToMaxBytes(...)
UploadOnload ==
    /\ upc = "onload"
    /\ uDataUrl' = uOriginal
    /\ CompressStart
    /\ upc' = "compressing"
    /\ UNCHANGED <<uOriginal, uKey, uNow, uIdb, uImage, uImageKey, uWarned,
                   uAlerted>>

\* The await of line 174 ends, by a value or by the catch of line 175; the
\* key is made (line 179) and idbSaveImage is called.
UploadAfterTry ==
    /\ upc = "compressing"
    /\ cpc \in {"returned", "threw"}
    /\ uDataUrl' = DataUrlAfterTry(uOriginal, cpc, out)
    /\ uWarned' = (cpc = "threw")
    /\ \E t \in Readings(uNow) : \E r \in 1..(MaxRand + 1) :
        /\ uNow' = t
        /\ uKey' = ImageKey(t, r)
    /\ upc' = "saving"
    /\ UNCHANGED <<cvars, uOriginal, uIdb, uImage, uImageKey, uAlerted>>

\* await idbSaveImage(key, dataUrl) resolves; setFormData (lines 182-186)
UploadSaved ==
    /\ upc = "saving"
    /\ uIdb' = IdbPut(uIdb, uKey, uDataUrl)
    /\ uImage' = uDataUrl
    /\ uImageKey' = uKey
    /\ upc' = "done"
    /\ UNCHANGED <<cvars, uOriginal, uDataUrl, uKey, uNow, uWarned, uAlerted>>

\* await idbSaveImage(key, dataUrl) rejects; alert (lines 187-189)
UploadSaveFailed ==
    /\ upc = "saving"
    /\ uAlerted' = TRUE
    /\ upc' = "done"
    /\ UNCHANGED <<cvars, uOriginal, uDataUrl, uKey, uNow, uIdb, uImage,
                   uImageKey, uWarned>>

\* ------------------------------------------------------------------------
\* handleGenerateWord (lines 289-358) and its button (lines 646-652)
\* ------------------------------------------------------------------------
\* most requests of one session
MaxRuns == 2

NoBody == [entries |-> <<>>, gzip |-> FALSE]

\* The rows the request is made of: filteredEntries of the render.
GenerateRows(list, filterStart) ==
    filteredEntries(sortedEntries(list), filterStart, EmptyString)

\* payloadEntries (lines 298-301)
payloadEntries(rows, withImages) ==
    [k \in 1..Len(rows) |->
        [rows[k] EXCEPT !.dokumen_pendukung =
            IF withImages THEN rows[k].dokumen_pendukung ELSE Null]]

\* The button without the flag in its disabled attribute
ButtonEnabledWhileGenerating(flag, rows) == Len(rows) # 0

\* disabled={isGenerating || filteredEntries.length === 0} (line 648)
ButtonEnabled(flag, rows) == ~(flag \/ Len(rows) = 0)

\* The bodies of an error response, and the message made of one (lines
\* 327-337): parsed?.detail || raw, raw when it is no JSON, the default
\* message when it is empty.
RawBodies == {"", "{\"detail\":\"d\"}", "{}", "oops"}
ErrorMessage(raw) ==
    CASE raw = "" -> "Gagal generate dokumen Word"
      [] raw = "{\"detail\":\"d\"}" -> "d"
      [] OTHER -> raw

\* The catch and the finally of lines 351-357
FailWith(message) ==
    /\ gAlerts' = Append(gAlerts, "Terjadi kesalahan: " \o message)
    /\ isGenerating' = FALSE
    /\ gpc' = "idle"

\* A click on the button: the handler up to its first await.  The page is
\* rendered again before the next event, with the flag set.
GenerateClick ==
    /\ gStarted < MaxRuns
    /\ ButtonEnabled(isGenerating, GenerateRows(gEntries, gFilterStart))
    /\ LET rows == GenerateRows(gEntries, gFilterStart)
       IN  IF Len(rows) = 0
           THEN /\ gAlerts' = Append(gAlerts, "Tidak ada kegiatan")
                /\ UNCHANGED <<gpc, isGenerating, gBody, gStarted>>
           ELSE /\ isGenerating' = TRUE
                /\ gStarted' = gStarted + 1
                /\ gBody' = [entries |-> payloadEntries(rows, includeImages),
                              gzip |-> FALSE]
                /\ \E supportsCompressionStream \in BOOLEAN :
                    gpc' = IF supportsCompressionStream THEN "gzip"
                           ELSE "fetch"
                /\ gAlerts' = gAlerts
    /\ UNCHANGED <<includeImages, gEntries, gFilterStart, gDownloads>>

\* await new Response(stream).arrayBuffer() resolves, or the inner catch
\* (line 316) takes the plain body; then fetch is called.
GzipDone ==
    /\ gpc = "gzip"
    /\ \E compressed \in BOOLEAN : gBody' = [gBody EXCEPT !.gzip = compressed]
    /\ gpc' = "fetch"
    /\ UNCHANGED <<isGenerating, includeImages, gEntries, gFilterStart,
                   gStarted, gAlerts, gDownloads>>

\* fetch resolves with a response: ok, or an HTTP error
FetchResolve ==
    /\ gpc = "fetch"
    /\ \E ok \in BOOLEAN : gpc' = IF ok THEN "blob" ELSE "text"
    /\ UNCHANGED <<isGenerating, includeImages, gEntries, gFilterStart,
                   gBody, gStarted, gAlerts, gDownloads>>

\* fetch rejects: a transport error
FetchReject ==
    /\ gpc = "fetch"
    /\ FailWith("Failed to fetch")
    /\ UNCHANGED <<includeImages, gEntries, gFilterStart, gBody, gStarted,
                   gDownloads>>

\* await response.text() of an error response resolves, or rejects
ErrorBodyRead ==
    /\ gpc = "text"
    /\ \/ \E raw \in RawBodies : FailWith(ErrorMessage(raw))
       \/ FailWith("body stream error")
    /\ UNCHANGED <<includeImages, gEntries, gFilterStart, gBody, gStarted,
                   gDownloads>>

\* await response.blob() resolves: the download and the success message
BlobResolve ==
    /\ gpc = "blob"
    /\ gDownloads' = gDownloads + 1
    /\ gAlerts' = Append(gAlerts, "Dokumen Word berhasil di-generate")
    /\ isGenerating' = FALSE
    /\ gpc' = "idle"
    /\ UNCHANGED <<includeImages, gEntries, gFilterStart, gBody, gStarted>>

\* await response.blob() rejects
BlobReject ==
    /\ gpc = "blob"
    /\ FailWith("body stream error")
    /\ UNCHANGED <<includeImages, gEntries, gFilterStart, gBody, gStarted,
                   gDownloads>>

\* The checkbox of lines 639-643
ToggleIncludeImages ==
    /\ includeImages' = ~includeImages
    /\ UNCHANGED <<gpc, isGenerating, gEntries, gFilterStart, gBody,
                   gStarted, gAlerts, gDownloads>>

\* ------------------------------------------------------------------------
\* compressImage: the target size (lines 31-41)
\* ------------------------------------------------------------------------
\* longest side of an image and of a configuration, in pixels
MaxSide == 6

\* A ratio of two integers, the denominator positive
Ratio(n, d) == [num |-> n, den |-> d]
RatioLeq(a, b) == a.num * b.den <= b.num * a.den
RatioMin(a, b) == IF RatioLeq(a, b) THEN a ELSE b

\* Math.min(maxWidth / width, maxHeight / height): the ratio without its cap
ScaleRatioUncapped(w, h, mw, mh) == RatioMin(Ratio(mw, w), Ratio(mh, h))

\* Math.min(1, maxWidth / width, maxHeight / height) (line 35)
ScaleRatio(w, h, mw, mh) ==
    RatioMin(Ratio(1, 1), RatioMin(Ratio(mw, w), Ratio(mh, h)))

\* A quotient that a double holds exactly: its denominator in lowest terms
\* is a power of two.
ExactQuotient(r) == \E k \in 0..10 : (r.num * 2^k) % r.den = 0

\* Math.round(side * ratio) (lines 36-37): the nearest integer, the upper one
\* at a half.  The product is computed in doubles from the quotient of line
\* 35; when that quotient was rounded, a product that is exactly half way
\* between two integers comes out at the half or just under it, and
\* Math.round gives the upper integer or the lower one.  Away from the half
\* the double and the exact product round alike for these sizes.
RoundedProducts(side, r) ==
    LET twice == 2 * side * r.num
        up == (twice + r.den) \div (2 * r.den)
    IN  IF twice % (2 * r.den) = r.den /\ ~ExactQuotient(r)
        THEN {up - 1, up} ELSE {up}

\* img.onload up to the drawing (lines 31-43)
ComputeTarget ==
    /\ dpc = "loaded"
    /\ LET ratio == ScaleRatio(width, height, maxWidth, maxHeight)
       IN  /\ targetWidth' \in RoundedProducts(width, ratio)
           /\ targetHeight' \in RoundedProducts(height, ratio)
    /\ dpc' = "drawn"
    /\ UNCHANGED <<width, height, maxWidth, maxHeight>>

\* ------------------------------------------------------------------------
\* Specifications
\* ------------------------------------------------------------------------
CompressIdle ==
    /\ cpc = "idle"
    /\ ci = 0
    /\ quality = StartQuality
    /\ maxW = StartDim
    /\ maxH = StartDim
    /\ attempts = <<>>
    /\ out = NoDataUrl

SaveIdle ==
    /\ spc = "idle"
    /\ sEntries = <<>>
    /\ sQuota = 0
    /\ sStore = NoItem
    /\ sOld = NoItem
    /\ sRes = SaveResult(NoItem, 0, 0, <<>>)

\* The component before it is mounted, and an empty image store.
AppIdle ==
    /\ now = 1
    /\ entries = <<>>
    /\ isEditing = FALSE
    /\ editingId = Null
    /\ isInitialized = FALSE
    /\ formData = EmptyForm
    /\ loadPc = "unmounted"
    /\ parsed = <<>>
    /\ uploads = {}
    /\ idb = {}
    /\ lastSave = "none"
    /\ session = [entries |-> <<>>, full |-> FALSE]
    /\ lastAct = Act("none", 0, TRUE, Null)

ViewIdle ==
    /\ vpc = "idle"
    /\ vEntries = <<>>
    /\ vFilterStart = EmptyString
    /\ vFilterEnd = EmptyString
    /\ vSorted = <<>>
    /\ vFiltered = <<>>
    /\ vTotal = 0

UploadIdle ==
    /\ upc = "idle"
    /\ uOriginal = NoDataUrl
    /\ uDataUrl = NoDataUrl
    /\ uKey = Null
    /\ uNow = 0
    /\ uIdb = {}
    /\ uImage = NoDataUrl
    /\ uImageKey = Null
    /\ uWarned = FALSE
    /\ uAlerted = FALSE

GenerateIdle ==
    /\ gpc = "idle"
    /\ isGenerating = FALSE
    /\ includeImages = TRUE
    /\ gEntries = <<>>
    /\ gFilterStart = EmptyString
    /\ gBody = NoBody
    /\ gStarted = 0
    /\ gAlerts = <<>>
    /\ gDownloads = 0

DimsIdle ==
    /\ dpc = "idle"
    /\ width = 0
    /\ height = 0
    /\ maxWidth = StartDim
    /\ maxHeight = StartDim
    /\ targetWidth = 0
    /\ targetHeight = 0

OthersIdle == ViewIdle /\ UploadIdle /\ GenerateIdle /\ DimsIdle

\* safeSaveEntries alone
SaveInit ==
    /\ CompressIdle
    /\ maxBytes = 0
    /\ AppIdle
    /\ OthersIdle
    /\ localStorage = NoItem
    /\ lsQuota = 0
    /\ spc = "ready"
    /\ \E n \in 0..MaxSaveLen : \E img \in [1..n -> BOOLEAN] :
         sEntries = [k \in 1..n |-> SampleEntry(k, img[k])]
    /\ sQuota \in -1..MaxSaveLen
    /\ sStore \in OldStores
    /\ sOld = sStore
    /\ sRes = SaveResult(sStore, 0, 0, <<>>)

SaveNext == SaveCall /\ UNCHANGED <<cvars, avars, ovars>>

SpecSave == SaveInit /\ [][SaveNext]_vars

\* compressToMaxBytes alone
CompressInit ==
    /\ CompressIdle
    /\ maxBytes \in 0..MaxTarget
    /\ SaveIdle
    /\ AppIdle
    /\ OthersIdle
    /\ localStorage = NoItem
    /\ lsQuota = 0

CompressNext ==
    \/ CompressStart /\ UNCHANGED <<svars, avars, ovars>>
    \/ LoopResolve /\ UNCHANGED <<svars, avars, ovars>>
    \/ FinalResolve /\ UNCHANGED <<svars, avars, ovars>>
    \/ CompressReject /\ UNCHANGED <<svars, avars, ovars>>

SpecCompress == CompressInit /\ [][CompressNext]_vars

\* One render of the list view, on entries in any insertion order
ViewInit ==
    /\ CompressIdle
    /\ maxBytes = 0
    /\ SaveIdle
    /\ AppIdle
    /\ UploadIdle
    /\ GenerateIdle
    /\ DimsIdle
    /\ localStorage = NoItem
    /\ lsQuota = 0
    /\ vpc = "props"
    /\ \E n \in 0..MaxViewLen :
       \E dates \in [1..n -> ViewDates] :
       \E jams \in [1..n -> FormJams \cup ForeignJams] :
         vEntries = [k \in 1..n |-> ViewEntry(k, dates[k], jams[k])]
    /\ \E f \in ViewFilters :
         vFilterStart = f[1] /\ vFilterEnd = f[2]
    /\ vSorted = <<>>
    /\ vFiltered = <<>>
    /\ vTotal = 0

ViewNext ==
    ViewRender /\ UNCHANGED <<cvars, svars, avars, uvars, gvars, dvars>>

SpecView == ViewInit /\ [][ViewNext]_vars

\* One run of reader.onload, the compression included
UploadInit ==
    /\ CompressIdle
    /\ maxBytes = UploadMaxBytes
    /\ SaveIdle
    /\ AppIdle
    /\ ViewIdle
    /\ GenerateIdle
    /\ DimsIdle
    /\ localStorage = NoItem
    /\ lsQuota = 0
    /\ upc = "onload"
    /\ uOriginal = OriginalDataUrl
    /\ uDataUrl = NoDataUrl
    /\ uKey = Null
    /\ uNow \in 0..1
    /\ uIdb = EarlierStore
    /\ uImage = NoDataUrl
    /\ uImageKey = Null
    /\ uWarned = FALSE
    /\ uAlerted = FALSE

UploadNext ==
    \/ UploadOnload /\ UNCHANGED <<svars, avars, viewvars, gvars, dvars>>
    \/ LoopResolve /\ upc = "compressing"
         /\ UNCHANGED <<svars, avars, viewvars, uvars, gvars, dvars>>
    \/ FinalResolve /\ upc = "compressing"
         /\ UNCHANGED <<svars, avars, viewvars, uvars, gvars, dvars>>
    \/ CompressReject /\ upc = "compressing"
         /\ UNCHANGED <<svars, avars, viewvars, uvars, gvars, dvars>>
    \/ UploadAfterTry /\ UNCHANGED <<svars, avars, viewvars, gvars, dvars>>
    \/ UploadSaved /\ UNCHANGED <<svars, avars, viewvars, gvars, dvars>>
    \/ UploadSaveFailed /\ UNCHANGED <<svars, avars, viewvars, gvars, dvars>>

SpecUpload == UploadInit /\ [][UploadNext]_vars

\* The document generation on a given entry list
GenerateInit ==
    /\ CompressIdle
    /\ maxBytes = 0
    /\ SaveIdle
    /\ AppIdle
    /\ ViewIdle
    /\ UploadIdle
    /\ DimsIdle
    /\ localStorage = NoItem
    /\ lsQuota = 0
    /\ gpc = "idle"
    /\ isGenerating = FALSE
    /\ includeImages = TRUE
    /\ \E n \in 0..MaxEntries : \E img \in [1..n -> BOOLEAN] :
         gEntries = [k \in 1..n |-> SampleEntry(k, img[k])]
    /\ gFilterStart \in {EmptyString, DateText(2024, 1, 2)}
    /\ gBody = NoBody
    /\ gStarted = 0
    /\ gAlerts = <<>>
    /\ gDownloads = 0

GenerateNext ==
    \/ GenerateClick /\ UNCHANGED <<cvars, svars, avars, viewvars, uvars, dvars>>
    \/ GzipDone /\ UNCHANGED <<cvars, svars, avars, viewvars, uvars, dvars>>
    \/ FetchResolve /\ UNCHANGED <<cvars, svars, avars, viewvars, uvars, dvars>>
    \/ FetchReject /\ UNCHANGED <<cvars, svars, avars, viewvars, uvars, dvars>>
    \/ ErrorBodyRead /\ UNCHANGED <<cvars, svars, avars, viewvars, uvars, dvars>>
    \/ BlobResolve /\ UNCHANGED <<cvars, svars, avars, viewvars, uvars, dvars>>
    \/ BlobReject /\ UNCHANGED <<cvars, svars, avars, viewvars, uvars, dvars>>
    \/ ToggleIncludeImages
         /\ UNCHANGED <<cvars, svars, avars, viewvars, uvars, dvars>>

SpecGenerate == GenerateInit /\ [][GenerateNext]_vars

\* One image loaded by compressImage under one configuration
DimsInit ==
    /\ CompressIdle
    /\ maxBytes = 0
    /\ SaveIdle
    /\ AppIdle
    /\ ViewIdle
    /\ UploadIdle
    /\ GenerateIdle
    /\ localStorage = NoItem
    /\ lsQuota = 0
    /\ dpc = "loaded"
    /\ width \in 1..MaxSide
    /\ height \in 1..MaxSide
    /\ maxWidth \in 1..MaxSide
    /\ maxHeight \in 1..MaxSide
    /\ targetWidth = 0
    /\ targetHeight = 0

DimsNext ==
    ComputeTarget /\ UNCHANGED <<cvars, svars, avars, viewvars, uvars, gvars>>

SpecDims == DimsInit /\ [][DimsNext]_vars

\* safeSaveEntries alone, the call being made at some time
SpecSaveFair == SpecSave /\ WF_vars(SaveNext)

\* The component in a browser that has not opened this revision before:
\* the store is empty or holds what an earlier revision wrote, and it has
\* room for all the entries the list can have, or for one less.
Init ==
    /\ CompressIdle
    /\ maxBytes = 0
    /\ SaveIdle
    /\ AppIdle
    /\ OthersIdle
    /\ localStorage \in {NoItem} \cup LegacyStores
    /\ lsQuota \in (MaxEntries - 1)..MaxEntries

Next ==
    \/ Startup /\ UNCHANGED <<cvars, svars, ovars>>
    \/ InitRender /\ UNCHANGED <<cvars, svars, ovars>>
    \/ LoadResolve /\ UNCHANGED <<cvars, svars, ovars>>
    \/ LoadReject /\ UNCHANGED <<cvars, svars, ovars>>
    \/ InputChange /\ UNCHANGED <<cvars, svars, ovars>>
    \/ UploadStart /\ UNCHANGED <<cvars, svars, ovars>>
    \/ UploadFinish /\ UNCHANGED <<cvars, svars, ovars>>
    \/ Submit /\ UNCHANGED <<cvars, svars, ovars>>
    \/ Edit /\ UNCHANGED <<cvars, svars, ovars>>
    \/ Delete /\ UNCHANGED <<cvars, svars, ovars>>
    \/ CancelEdit /\ UNCHANGED <<cvars, svars, ovars>>

Spec == Init /\ [][Next]_vars

\* ------------------------------------------------------------------------
\* Claims about compressToMaxBytes (checked under SpecCompress)
\* ------------------------------------------------------------------------
\* The compressor is deterministic and no two calls of one run use the same
\* settings, so drawing each result when the call is made is the same as
\* fixing the source image's result for every setting of the schedule
\* beforehand.  A setting of the schedule that the run never reached was
\* preceded by one that met the target.
Fits(a) == dataUrlSizeBytes(a.res) <= maxBytes
SomeAttemptFits == \E k \in 1..Len(attempts) : Fits(attempts[k])
NoAttemptFits == \A k \in 1..Len(attempts) : ~Fits(attempts[k])

\* C1 (as claimed): whenever some setting of the schedule yields an
\* estimated size <= T, the driver returns after at most 8 compressor calls
\* with a payload whose estimated size is <= T.
C1_AtMostEightCalls ==
    (cpc = "returned" /\ SomeAttemptFits)
        => (Len(attempts) <= 8 /\ dataUrlSizeBytes(out) <= maxBytes)

\* C1 (amended): whenever some setting of the schedule yields an estimated
\* size <= T and the driver returns, it has made at most 9 compressor calls
\* (at most 8 when one of the first eight settings fits) and the payload it
\* returns has an estimated size <= T; no run makes more than 9 calls.
C1_AtMostNineCalls ==
    /\ Len(attempts) <= 9
    /\ (cpc = "returned" /\ SomeAttemptFits)
        => /\ dataUrlSizeBytes(out) <= maxBytes
           /\ out = attempts[Len(attempts)].res
           /\ (\E k \in 1..Min(8, Len(attempts)) : Fits(attempts[k]))
                => Len(attempts) <= 8

\* C1 witness: the ninth (final) call is the first to meet the target.
C1_Witness ==
    /\ cpc = "returned"
    /\ Len(attempts) = 9
    /\ dataUrlSizeBytes(out) <= maxBytes
    /\ \A k \in 1..8 : ~Fits(attempts[k])

\* C2: when no attempt meets the target and no compressor call fails, the
\* driver returns after exactly 9 compressor calls (8 loop iterations and
\* the final pass), and what it returns is the non-empty result of the 9th
\* call, which exceeds the target; the final pass follows exactly 8 calls.
C2_NineCallsWhenNothingFits ==
    /\ (cpc = "final") => (Len(attempts) = 8 /\ NoAttemptFits)
    /\ (cpc = "returned" /\ NoAttemptFits)
        => /\ Len(attempts) = 9
           /\ out = attempts[9].res
           /\ out.hdr /\ out.body > 0
           /\ dataUrlSizeBytes(out) > maxBytes

\* C2 witness: a run that returned an over-target payload of its 9th call.
C2_Witness ==
    /\ cpc = "returned"
    /\ Len(attempts) = 9
    /\ NoAttemptFits
    /\ dataUrlSizeBytes(out) > maxBytes

\* C18 (as claimed): when no attempt meets the target, the payload the driver
\* returns has the smallest estimated size of all the results the compressor
\* produced during the call.
C18_ReturnsSmallestResult ==
    (cpc = "returned" /\ NoAttemptFits)
        => \A k \in 1..Len(attempts) :
             dataUrlSizeBytes(out) <= dataUrlSizeBytes(attempts[k].res)

\* C19 (as claimed): from one attempt to the next, while quality is above
\* 0.50 only quality changes, by minus 0.10; at quality 0.50 or less with
\* dimensions above 480 x 480 only the dimensions change, to 0.80 of them,
\* floored and not below 480; quality goes below 0.50 only after an attempt
\* that was run at 480 x 480, so that 480 x 480 at quality 0.50 is attempted
\* before any lower quality.
C19_AdjustmentPolicy ==
    /\ \A k \in 1..(Len(attempts) - 1) :
         LET a == attempts[k]
             b == attempts[k + 1]
         IN  /\ a.quality > QualityKnee
                  => /\ b.quality = a.quality - QualityStep
                     /\ b.maxW = a.maxW /\ b.maxH = a.maxH
             /\ (a.quality <= QualityKnee /\ a.maxW > MinDim /\ a.maxH > MinDim)
                  => /\ b.quality = a.quality
                     /\ b.maxW = ShrinkDim(a.maxW)
                     /\ b.maxH = ShrinkDim(a.maxH)
             /\ b.quality < QualityKnee
                  => (a.maxW = MinDim /\ a.maxH = MinDim)
    /\ \A k \in 1..Len(attempts) :
         attempts[k].quality < QualityKnee
           => \E j \in 1..(k - 1) :
                /\ attempts[j].maxW = MinDim /\ attempts[j].maxH = MinDim
                /\ attempts[j].quality = QualityKnee

\* C20: at every compressor call quality is within [0.35, 0.70], the two
\* maximum dimensions are equal and within [480, 1280], and from one call to
\* the next neither quality nor the dimensions increase and at least one of
\* them decreases, so no setting is used twice.
C20_SettingsBoundedAndDecreasing ==
    /\ \A k \in 1..Len(attempts) :
         /\ attempts[k].quality >= MinQuality
         /\ attempts[k].quality <= StartQuality
         /\ attempts[k].maxW = attempts[k].maxH
         /\ attempts[k].maxW >= MinDim
         /\ attempts[k].maxW <= StartDim
    /\ \A k \in 1..(Len(attempts) - 1) :
         /\ attempts[k + 1].quality <= attempts[k].quality
         /\ attempts[k + 1].maxW <= attempts[k].maxW
         /\ attempts[k + 1].maxH <= attempts[k].maxH
         /\ \/ attempts[k + 1].quality < attempts[k].quality
            \/ attempts[k + 1].maxW < attempts[k].maxW
    /\ \A j, k \in 1..Len(attempts) :
         (j # k) => <<attempts[j].quality, attempts[j].maxW>>
                      # <<attempts[k].quality, attempts[k].maxW>>

\* The whole schedule was run: from 1280 at quality 0.70 to the final pass
\* at 480 and quality 0.35.
C20_Witness ==
    /\ Len(attempts) = 9
    /\ attempts[1].quality = StartQuality /\ attempts[1].maxW = StartDim
    /\ attempts[9].quality = MinQuality /\ attempts[9].maxW = MinDim

\* ------------------------------------------------------------------------
\* Claims about safeSaveEntries (checked under SpecSave)
\* ------------------------------------------------------------------------
\* The last k elements of a list, k <= its length
LastK(list, k) == SubSeq(list, Len(list) - k + 1, Len(list))

\* What the store should receive: per entry its id and text fields, and as
\* image field the key of the image store, or null.
Projected ==
    [k \in 1..Len(sEntries) |->
        [id |-> sEntries[k].id, tanggal |-> sEntries[k].tanggal,
         jam |-> sEntries[k].jam, jam_mulai |-> Undefined,
         jam_selesai |-> Undefined,
         judul_kegiatan |-> sEntries[k].judul_kegiatan,
         rincian_kegiatan |-> sEntries[k].rincian_kegiatan,
         dokumen_pendukung |->
            IF IsImageKey(sEntries[k].dokumen_pendukung_key)
            THEN sEntries[k].dokumen_pendukung_key ELSE Null,
         dokumen_pendukung_key |-> Undefined]]

\* The slice lengths of the policy: n, floor(0.8 n), ... down to 1
RECURSIVE PolicyLengths(_)
PolicyLengths(n) ==
    IF n <= 0 THEN {} ELSE {n} \cup PolicyLengths((8 * n) \div 10)

\* The lengths a call on N entries may write: N itself (also when N = 0)
\* and the retry lengths below it.
TriedLengths(n) == {n} \cup PolicyLengths((8 * n) \div 10)

SetMax(S) == CHOOSE x \in S : \A y \in S : y <= x

\* C3 (as claimed, taken on the stores that take at least one entry): with a
\* store that takes the last j entries exactly when j <= K (1 <= K <= N),
\* the call leaves the store holding exactly the last K entries of the list,
\* in their original order.
C3_ExactlyLastK ==
    (spc = "done" /\ sQuota \in 1..Len(sEntries))
        => sStore = Item(LastK(Projected, sQuota))

\* C3 (amended): with such a store the call leaves the store holding exactly
\* the last s entries of the list in their original order, where s is the
\* first length of N, floor(0.8 N), floor(0.8 floor(0.8 N)), ... that is
\* <= K (so s <= K, and s = K when K = N); when no length of that series
\* above 0 is <= K, the store keeps the value it held before.
C3_LastPolicyLengthThatFits ==
    (spc = "done" /\ sQuota \in 0..Len(sEntries))
        => LET fits == {j \in TriedLengths(Len(sEntries)) : j <= sQuota}
           IN  IF fits # {}
               THEN sStore = Item(LastK(Projected, SetMax(fits)))
               ELSE sStore = sOld

\* C3 witness: 6 entries, room for 5: the call has stored the last 4.
C3_Witness ==
    /\ spc = "done"
    /\ Len(sEntries) = 6
    /\ sQuota = 5
    /\ sStore = Item(LastK(Projected, 4))

\* C4: every value safeSaveEntries hands to setItem, written or refused, is
\* a contiguous suffix of the projected list: the most recent entries in
\* their original order.
C4_WritesAreSuffixes ==
    \A w \in 1..Len(sRes.writes) :
        \E k \in 0..Len(sEntries) :
            sRes.writes[w].value = LastK(Projected, k)

\* C4 witness: a truncated write of two or more entries went through.
C4_Witness ==
    /\ spc = "done"
    /\ Len(sStore.list) >= 2
    /\ Len(sStore.list) < Len(sEntries)
    /\ sRes.writes[Len(sRes.writes)].ok

AllWritesFailed ==
    /\ Len(sRes.writes) >= 1
    /\ \A w \in 1..Len(sRes.writes) : ~sRes.writes[w].ok

\* C8: when the full write and every truncated retry fail, the call returns
\* normally, logs the failure once, shows no alert, and the store keeps the
\* value it held before the call.
C8_TotalFailureIsQuiet ==
    (spc = "done" /\ AllWritesFailed)
        => /\ sRes.ended = "returned"
           /\ sRes.logged = 1
           /\ sRes.alerts = 0
           /\ sStore = sOld

\* C8 witness: a full write and at least two retries failed over a store
\* that held an older list.
C8_Witness ==
    /\ spc = "done"
    /\ AllWritesFailed
    /\ Len(sRes.writes) >= 3
    /\ sOld.present
    /\ sStore = sOld

\* C9: the first successful write ends the call (only the last setItem of a
\* call can have succeeded); there is one alert exactly when the write that
\* succeeded was a truncated one, and none otherwise; in particular a
\* successful full write shows no alert.
C9_FirstSuccessWins ==
    (spc = "done")
        => LET n == Len(sRes.writes)
           IN  /\ n >= 1
               /\ \A w \in 1..(n - 1) : ~sRes.writes[w].ok
               /\ sRes.alerts \in {0, 1}
               /\ (sRes.alerts = 1) <=> (sRes.writes[n].ok /\ n >= 2)
               /\ (sRes.writes[n].ok /\ n >= 2)
                    => Len(sRes.writes[n].value) < Len(sEntries)
               /\ sRes.writes[1].ok => (n = 1 /\ sRes.alerts = 0)
               /\ sRes.writes[n].ok => sStore = Item(sRes.writes[n].value)

\* C9 witness: a retry succeeded after the full write and one retry failed,
\* and one alert was shown.
C9_Witness ==
    /\ spc = "done"
    /\ Len(sRes.writes) = 3
    /\ sRes.writes[3].ok
    /\ sRes.alerts = 1

\* floor(0.8 n), on integers
EightTenths(n) == (8 * n) \div 10

\* The lengths of the values handed to setItem, in the order of the calls
WriteLengths == [w \in 1..Len(sRes.writes) |-> Len(sRes.writes[w].value)]

\* What C21 says of a finished call: the first write is the full list; each
\* retry follows a failed write, is shorter than it, not empty, and has
\* floor(0.8 * previous) entries; the call stops at the first success, or when
\* floor(0.8 * last) is 0, so a failed full write of one entry (or of none)
\* has no retry.
RetryLengthsFollowPolicy ==
    LET n == Len(sRes.writes)
    IN  /\ n >= 1
        /\ WriteLengths[1] = Len(sEntries)
        /\ \A w \in 2..n :
             /\ ~sRes.writes[w - 1].ok
             /\ WriteLengths[w] = EightTenths(WriteLengths[w - 1])
             /\ WriteLengths[w] < WriteLengths[w - 1]
             /\ WriteLengths[w] > 0
        /\ ~sRes.writes[n].ok => EightTenths(WriteLengths[n]) = 0
        /\ (Len(sEntries) <= 1 /\ ~sRes.writes[1].ok) => n = 1

\* C21: for every list length and every store, safeSaveEntries terminates;
\* after a failed full write the retries have floor(0.8 N) entries, then
\* floor(0.8 * previous) after each further failure, strictly fewer each time,
\* until a write succeeds or the length reaches 0; for N = 1 a failed full
\* write has no retry.
C21_SaveTerminatesOnPolicyLengths ==
    /\ [](spc = "done" => RetryLengthsFollowPolicy)
    /\ <>(spc = "done")

\* C21 witness: six entries and a store that takes nothing: the writes had
\* 6, 4, 3, 2 and 1 entries and the call ended.
C21_Witness ==
    /\ spc = "done"
    /\ WriteLengths = <<6, 4, 3, 2, 1>>
    /\ AllWritesFailed

\* ------------------------------------------------------------------------
\* Claims about the App component
\* ------------------------------------------------------------------------
\* A step of the load that ends it, on either path.
LoadEnds == loadPc = "reading" /\ loadPc' = "done"

\* C5 (as claimed): once this revision has run its save effect, every entry
\* of the persisted list has an image field that is null or a key of the
\* image store, never a raw payload, also when the list loaded at startup
\* was written by an earlier revision.
C5_NoRawPayloadPersisted ==
    lastSave # "none" =>
        \A k \in 1..Len(localStorage.list) :
            LET image == localStorage.list[k].dokumen_pendukung
            IN  image = Null \/ IsImageKey(image)

\* The entries the round trip is about: the ones a submit of this revision
\* made, which carry their start and end.
CarriesRange(e) ==
    /\ e.id # LegacyEntry.id
    /\ e.jam_mulai # Undefined
    /\ e.jam_selesai # Undefined

\* C6 (as claimed): an entry persisted by a full save and reloaded at the
\* next startup has the same id, date, time range, start, end, title and
\* detail as before the reload.
C6_RoundTripAllTextFields ==
    [][(LoadEnds /\ session.full) =>
          /\ Len(entries') = Len(session.entries)
          /\ \A k \in 1..Len(session.entries) :
                CarriesRange(session.entries[k]) =>
                    \A name \in {"id", "tanggal", "jam", "jam_mulai",
                                 "jam_selesai", "judul_kegiatan",
                                 "rincian_kegiatan"} :
                        entries'[k][name] = session.entries[k][name]]_vars

\* C6 (amended): such an entry comes back with the same id, date, combined
\* time range, title and detail; its separate start and end fields are not
\* persisted and come back undefined, and the start and end are the two
\* parts of the combined time range.
C6_RoundTripPersistedFields ==
    [][(LoadEnds /\ session.full) =>
          /\ Len(entries') = Len(session.entries)
          /\ \A k \in 1..Len(session.entries) :
                CarriesRange(session.entries[k]) =>
                    /\ \A name \in {"id", "tanggal", "jam", "judul_kegiatan",
                                    "rincian_kegiatan"} :
                          entries'[k][name] = session.entries[k][name]
                    /\ entries'[k].jam_mulai = Undefined
                    /\ entries'[k].jam_selesai = Undefined
                    /\ Split(entries'[k].jam) =
                          <<session.entries[k].jam_mulai,
                            session.entries[k].jam_selesai>>]_vars

\* A list saved in full, with an entry made by a submit in it, was reloaded.
C6_Witness ==
    /\ lastAct.name = "LoadResolve"
    /\ lastAct.pos >= 1
    /\ \E k \in 1..Len(entries) :
          /\ entries[k].id # LegacyEntry.id
          /\ entries[k].jam_mulai = Undefined
          /\ Split(entries[k].jam) = <<FieldValue("jam_mulai"),
                                       FieldValue("jam_selesai")>>

RemoveAt(list, p) ==
    [k \in 1..(Len(list) - 1) |-> IF k < p THEN list[k] ELSE list[k + 1]]

\* C10 (as claimed): a confirmed delete on the row of an entry removes that
\* entry and no other, keeps the order of the rest, and asks the image store
\* to delete that entry's image key when it has one, whether or not the
\* image store does it; an unconfirmed delete changes nothing.
C10_DeleteRemovesExactlyThatEntry ==
    [][lastAct'.name = "handleDelete" =>
          IF lastAct'.ok
          THEN LET p == lastAct'.pos
               IN  /\ entries' = RemoveAt(entries, p)
                   /\ lastAct'.key =
                         OrElse(entries[p].dokumen_pendukung_key, Null)
          ELSE UNCHANGED <<entries, idb, localStorage, formData, isEditing,
                           editingId>>]_vars


\* The number an identifier is the decimal text of.
RECURSIVE IdNumber(_)
IdNumber(id) ==
    IF id = <<>> THEN 0
    ELSE 10 * IdNumber(SubSeq(id, 1, Len(id) - 1)) + DigitValue(id[Len(id)])

\* C11 (as claimed): in every reachable state the identifiers of the entry
\* list are pairwise distinct and increase with the creation (insertion)
\* order, also after two adds at the same clock reading.
C11_IdsDistinctAndIncreasing ==
    \A j, k \in 1..Len(entries) :
        j < k => /\ entries[j].id # entries[k].id
                 /\ IdNumber(entries[j].id) < IdNumber(entries[k].id)


\* ------------------------------------------------------------------------
\* Claims on the list view (SpecView)
\* ------------------------------------------------------------------------
Rendered == vpc = "rendered"

\* The key the view sorts on: the day of the date, then the minute the
\* range starts at.
DateKey(e) == DateTime(e.tanggal).val
StartKey(e) == getStartMinutes(e.jam).val
InDisplayOrder(a, b) ==
    \/ DateKey(a) < DateKey(b)
    \/ DateKey(a) = DateKey(b) /\ StartKey(a) <= StartKey(b)

IsPermutation(s, t) ==
    /\ Len(s) = Len(t)
    /\ \A e \in {t[k] : k \in 1..Len(t)} :
         Cardinality({k \in 1..Len(s) : s[k] = e})
           = Cardinality({k \in 1..Len(t) : t[k] = e})

RECURSIVE IsSubsequence(_, _)
IsSubsequence(s, t) ==
    IF s = <<>> THEN TRUE
    ELSE IF t = <<>> THEN FALSE
    ELSE IF Head(s) = Head(t) THEN IsSubsequence(Tail(s), Tail(t))
    ELSE IsSubsequence(s, Tail(t))

\* C12: after a render the sorted list is a permutation of the entry list in
\* ascending order of date and, within one date, of start time, whatever the
\* insertion order was; the rows shown are taken from it in that order; and
\* the entry list itself still is in insertion order.
C12_DisplayedListSorted ==
    Rendered =>
        /\ IsPermutation(vSorted, vEntries)
        /\ \A j, k \in 1..Len(vSorted) :
             j < k => InDisplayOrder(vSorted[j], vSorted[k])
        /\ IsSubsequence(vFiltered, vSorted)
        /\ \A k \in 1..Len(vEntries) : vEntries[k].id = NumToString(k)

\* The scenario of the claim: 2024-01-02/08:00, 2024-01-01/17:00 and
\* 2024-01-01/09:00 inserted in this order are shown as 01-01 09:00,
\* 01-01 17:00, 01-02 08:00.
C12_Witness ==
    /\ Rendered
    /\ vFilterStart = EmptyString /\ vFilterEnd = EmptyString
    /\ vEntries = <<ViewEntry(1, DateText(2024, 1, 2), TimeRange(8, 0, 8, 0)),
                    ViewEntry(2, DateText(2024, 1, 1),
                              TimeRange(17, 0, 18, 15)),
                    ViewEntry(3, DateText(2024, 1, 1),
                              TimeRange(9, 0, 10, 30))>>
    /\ vFiltered = <<vEntries[3], vEntries[2], vEntries[1]>>

\* A time of day as a time input writes it, "HH:MM", and its minute of the
\* day.
WellFormedTime(text) ==
    /\ Len(text) = 5
    /\ text[3] = ":"
    /\ \A k \in {1, 2, 4, 5} : IsDigit(text[k])
    /\ 10 * DigitValue(text[1]) + DigitValue(text[2]) <= 23
    /\ 10 * DigitValue(text[4]) + DigitValue(text[5]) <= 59
MinuteOfDay(text) ==
    (10 * DigitValue(text[1]) + DigitValue(text[2])) * 60
      + 10 * DigitValue(text[4]) + DigitValue(text[5])
WellFormedRange(jam) ==
    /\ Len(Split(jam)) = 2
    /\ WellFormedTime(Split(jam)[1])
    /\ WellFormedTime(Split(jam)[2])

\* The duration a well-formed range has by the claim
ClaimedDuration(jam) ==
    LET start == MinuteOfDay(Split(jam)[1])
        end == MinuteOfDay(Split(jam)[2])
    IN  IF end > start THEN end - start ELSE 0

\* A field of a time with no integer at its front, and a range the
\* durations cannot be read from: not two parts around " - ", or a part
\* whose hour or minute has no integer at its front.
NoLeadingInteger(text, k) ==
    \/ k > Len(SplitOn(text, ":"))
    \/ LET piece == SplitOn(text, ":")[k]
       IN  piece = <<>> \/ ~IsDigit(Head(piece))
UnreadableRange(jam) ==
    \/ Len(Split(jam)) # 2
    \/ \E p \in 1..2 : \E k \in 1..2 : NoLeadingInteger(Split(jam)[p], k)

RECURSIVE SumOfDurations(_)
SumOfDurations(list) ==
    IF list = <<>> THEN 0
    ELSE parseMinutesFromJam(Head(list).jam) + SumOfDurations(Tail(list))

RequiredFields ==
    {"tanggal", "jam_mulai", "jam_selesai", "judul_kegiatan",
     "rincian_kegiatan"}
RequiredFieldEmpty ==
    \E name \in RequiredFields :
        formData[name] \in {EmptyString, Null, Undefined}
SubmitBlocked == Act("handleSubmit", 0, FALSE, Null)

\* C14: a submit while a required field (date, start time, end time, title,
\* detail) is empty is blocked with the message, and leaves the entry list,
\* isEditing, editingId, the form and the persisted list as they were.
C14_IncompleteSubmitBlocked ==
    [][(RequiredFieldEmpty /\ lastAct'.name = "handleSubmit")
         => /\ lastAct' = SubmitBlocked
            /\ UNCHANGED <<entries, isEditing, editingId, formData,
                           localStorage, idb>>]_vars

\* A submit was blocked while an entry was being edited.
C14_Witness ==
    /\ lastAct = SubmitBlocked
    /\ RequiredFieldEmpty
    /\ isEditing
    /\ Len(entries) >= 1
    /\ localStorage # NoItem

\* ------------------------------------------------------------------------
\* Claims on the upload handler (SpecUpload)
\* ------------------------------------------------------------------------
CompressionFailed == cpc = "threw"

\* The state of an upload whose compression failed, once the handler is past
\* the try: the warning was given and the original is the payload; and once
\* it is done: the image store took the original under the key of this run
\* with the earlier image still there when that key is another one, and the
\* form carries payload and key; or the store refused, with the alert.
FallbackState ==
    (CompressionFailed /\ upc \in {"saving", "done"}) =>
        /\ uWarned
        /\ uDataUrl = OriginalDataUrl
        /\ \E t \in 0..MaxClock : \E r \in 1..(MaxRand + 1) :
             /\ uKey = ImageKey(t, r)
             /\ (t # 0 \/ r # 1) => ~IdbHas(EarlierStore, uKey)
        /\ (upc = "done" /\ ~uAlerted) =>
             /\ uIdb = IdbPut(EarlierStore, uKey, OriginalDataUrl)
             /\ uImage = OriginalDataUrl
             /\ uImageKey = uKey
        /\ (upc = "done" /\ uAlerted) =>
             /\ uIdb = EarlierStore
             /\ uImage = NoDataUrl
             /\ uImageKey = Null

\* C15: when a compressor call inside compressToMaxBytes fails, the driver
\* makes no further attempt; the upload handler catches the failure and goes
\* on with the uncompressed original, which it stores and attaches to the
\* form under the key made for this upload; the handler runs to its end.
C15_CompressionFailureFallsBack ==
    [][/\ CompressionFailed => (attempts' = attempts /\ CompressionFailed')
       /\ (CompressionFailed /\ upc = "compressing") => upc' = "saving"
       /\ FallbackState']_vars

\* An upload whose third compressor call failed and that ended with the
\* original stored and attached.
C15_Witness ==
    /\ CompressionFailed
    /\ Len(attempts) = 2
    /\ upc = "done"
    /\ uImage = OriginalDataUrl
    /\ IdbGet(uIdb, uImageKey) = OriginalDataUrl
    /\ ~IdbHas(EarlierStore, uImageKey)

\* ------------------------------------------------------------------------
\* Claims on the document generation (SpecGenerate)
\* ------------------------------------------------------------------------
RequestInFlight == gpc # "idle"

\* C16: a step that ends a request (by the download, by an HTTP error or by
\* a transport error) clears the generating flag and shows one more message;
\* no step of the generation changes the entry list; no request is started
\* while the flag is set, and the flag is set while a request is in flight.
C16_GenerationEndsClean ==
    [][/\ (RequestInFlight /\ ~RequestInFlight')
          => /\ ~isGenerating'
             /\ Len(gAlerts') = Len(gAlerts) + 1
       /\ gEntries' = gEntries
       /\ isGenerating => gStarted' = gStarted
       /\ RequestInFlight' => isGenerating']_vars

\* Two requests have ended, one by the download and one by an error, each
\* with its message, and the flag is cleared.
C16_Witness ==
    /\ ~RequestInFlight
    /\ ~isGenerating
    /\ gStarted = 2
    /\ gDownloads = 1
    /\ Len(gAlerts) = 2
    /\ Len(gEntries) = 2

\* ------------------------------------------------------------------------
\* Claims on the target size of compressImage (SpecDims)
\* ------------------------------------------------------------------------
Drawn == dpc = "drawn"

\* side * ratio rounded to an integer: no further than a half from it
IsRounded(target, side, r) ==
    /\ 2 * r.den * target - 2 * side * r.num <= r.den
    /\ 2 * side * r.num - 2 * r.den * target <= r.den

\* The ratio of the claim is one of 1, max_width / width and
\* max_height / height, and none of the three is smaller.
IsClaimedRatio(r) ==
    /\ \E c \in {Ratio(1, 1), Ratio(maxWidth, width),
                 Ratio(maxHeight, height)} :
         c.num * r.den = r.num * c.den
    /\ r.num * 1 <= 1 * r.den
    /\ r.num * width <= maxWidth * r.den
    /\ r.num * height <= maxHeight * r.den

\* C17: for every source size and configuration the target width is at most
\* max_width and the source width, the target height is at most max_height
\* and the source height, and both are the source side times the one ratio
\* min(1, max_width / width, max_height / height), rounded.
C17_TargetWithinBounds ==
    Drawn =>
        /\ targetWidth <= maxWidth
        /\ targetHeight <= maxHeight
        /\ targetWidth <= width
        /\ targetHeight <= height
        /\ \E n \in 1..MaxSide : \E d \in 1..MaxSide :
             /\ IsClaimedRatio(Ratio(n, d))
             /\ IsRounded(targetWidth, width, Ratio(n, d))
             /\ IsRounded(targetHeight, height, Ratio(n, d))

\* An image wider than the configuration allows and lower than it allows:
\* 6 x 3 under 4 x 4 is drawn at 4 x 2.
C17_Witness ==
    /\ Drawn
    /\ width = 6 /\ height = 3
    /\ maxWidth = 4 /\ maxHeight = 4
    /\ targetWidth = 4 /\ targetHeight = 2

\* ------------------------------------------------------------------------
\* Claims on startup and on the save effect (Spec)
\* ------------------------------------------------------------------------
LoadInFlight == loadPc = "reading"

\* C22 (as claimed): on a startup with a non-empty persisted list, as long as
\* the load is in progress (the reads of the image store included) nothing is
\* written to the store: it holds the list it held at mount, never an empty
\* or a shorter one.
C22_NoWriteDuringInitialLoad ==
    (LoadInFlight /\ parsed # <<>>) => localStorage = Item(parsed)

\* An entry as the store should hold it: id, date, time range, title and
\* detail, and as image field the entry's reference key, or null for none.
PersistedForm(e) ==
    [id |-> e.id, tanggal |-> e.tanggal, jam |-> e.jam,
     jam_mulai |-> Undefined, jam_selesai |-> Undefined,
     judul_kegiatan |-> e.judul_kegiatan,
     rincian_kegiatan |-> e.rincian_kegiatan,
     dokumen_pendukung |->
        IF e.dokumen_pendukung_key \in {Null, Undefined, EmptyString}
        THEN Null ELSE e.dokumen_pendukung_key,
     dokumen_pendukung_key |-> Undefined]
PersistedFormOf(list) == [k \in 1..Len(list) |-> PersistedForm(list[k])]

\* A step that adds, updates or deletes an entry
Mutation ==
    /\ lastAct'.name \in {"handleSubmit", "handleDelete"}
    /\ lastAct'.ok
    /\ lastAct' # lastAct \/ entries' # entries

\* C23: every add, update and delete made after the initialization runs the
\* persistence writer, and when the store takes the full write the persisted
\* list is the current entry list in insertion order, each image field
\* replaced by the entry's reference key; a list longer than the store takes
\* ends in a truncated or a failed save.  The writer runs inside the step of
\* the handler, so no save starts while another one runs.
C23_MutationIsPersisted ==
    [][Mutation =>
         /\ isInitialized
         /\ lastSave' \in {"full", "truncated", "failed"}
         /\ (Len(entries') <= lsQuota)
              => /\ lastSave' = "full"
                 /\ localStorage' = Item(PersistedFormOf(entries'))
         /\ (Len(entries') > lsQuota) => lastSave' # "full"]_vars

\* C23 witness: a delete left one entry with an image, and the store holds
\* that entry with the key as its image field.
C23_Witness ==
    /\ lastAct.name = "handleDelete" /\ lastAct.ok
    /\ Len(entries) = 1
    /\ IsImageKey(entries[1].dokumen_pendukung_key)
    /\ IsPayload(entries[1].dokumen_pendukung)
    /\ lastSave = "full"
    /\ localStorage = Item(PersistedFormOf(entries))

\* A valid submit: the step of handleSubmit that went past the validation
ValidSubmit == lastAct'.name = "handleSubmit" /\ lastAct'.ok

\* The entry a submit makes of the form
EntryOfForm(form, id) ==
    [id |-> id, tanggal |-> form.tanggal,
     jam |-> form.jam_mulai \o <<" - ">> \o form.jam_selesai,
     jam_mulai |-> form.jam_mulai, jam_selesai |-> form.jam_selesai,
     judul_kegiatan |-> form.judul_kegiatan,
     rincian_kegiatan |-> form.rincian_kegiatan,
     dokumen_pendukung |-> form.dokumen_pendukung,
     dokumen_pendukung_key |-> form.dokumen_pendukung_key]

\* C24 (as claimed): a valid submit in edit mode replaces exactly one entry,
\* the one whose id is editingId, by the form's fields under the same id and
\* at the same position, leaves the other entries and the length of the list
\* as they were and clears the editing state; a valid submit outside edit
\* mode appends one entry made of the form and changes no other; both reset
\* the form.
C24_SubmitFrame ==
    [][ValidSubmit =>
         /\ formData' = EmptyForm
         /\ ~isEditing' /\ editingId' = Null
         /\ isEditing =>
              /\ Len(entries') = Len(entries)
              /\ \E k \in 1..Len(entries) :
                   /\ entries[k].id = editingId
                   /\ entries'[k] = EntryOfForm(formData, editingId)
                   /\ \A j \in 1..Len(entries) :
                        j # k => entries'[j] = entries[j]
         /\ ~isEditing =>
              /\ Len(entries') = Len(entries) + 1
              /\ \A j \in 1..Len(entries) : entries'[j] = entries[j]
              /\ \E t \in 0..MaxClock :
                   entries'[Len(entries')]
                     = EntryOfForm(formData, NumToString(t))]_vars

\* C25 (as claimed): whenever isEditing is true, editingId is the id of an
\* entry of the entry list, after any interleaving of edit, delete, cancel
\* and submit.
C25_EditingIdIsInList ==
    isEditing => \E k \in 1..Len(entries) : entries[k].id = editingId

\* ---------------------------------------------------------------------
\* The form is rendered and usable from the first render on, while the
\* reads of the image store started by the mount effect (lines 121-130)
\* are still pending: the user can type and submit before they settle.
Interactive == isInitialized /\ loadPc # "unmounted"

InputChangeWhileLoading ==
    /\ Interactive
    /\ InputChangeHandler

SubmitWhileLoading ==
    /\ Interactive
    /\ SubmitHandler

RaceNext ==
    \/ Startup /\ UNCHANGED <<cvars, svars, ovars>>
    \/ InitRender /\ UNCHANGED <<cvars, svars, ovars>>
    \/ LoadResolve /\ UNCHANGED <<cvars, svars, ovars>>
    \/ LoadReject /\ UNCHANGED <<cvars, svars, ovars>>
    \/ InputChangeWhileLoading /\ UNCHANGED <<cvars, svars, ovars>>
    \/ SubmitWhileLoading /\ UNCHANGED <<cvars, svars, ovars>>

SpecRace == Init /\ [][RaceNext]_vars

\* C26: an entry the user added while the load was in flight is still in
\* the entry list, and in the stored list, after the load has settled.
HasId(list, id) == \E j \in 1..Len(list) : list[j].id = id
C26_LoadKeepsUserMutation ==
    [][LoadEnds =>
         \A k \in 1..Len(entries) :
             /\ HasId(entries', entries[k].id)
             /\ localStorage'.present
             /\ HasId(localStorage'.list, entries[k].id)]_vars

\* ---------------------------------------------------------------------
\* C27: an upload that completes right after a submit, a cancel or the
\* edit of an entry was started for the form as it was before that step;
\* its completion leaves the form of now without that image.
FormResetOrSwitched ==
    /\ lastAct.name \in {"handleSubmit", "handleCancelEdit", "handleEdit"}
    /\ lastAct.ok
UploadCompletes == lastAct'.name = "uploadFinish" /\ uploads' # uploads
C27_LateUploadLeavesFormAlone ==
    [][(FormResetOrSwitched /\ UploadCompletes) =>
         /\ formData'.dokumen_pendukung = formData.dokumen_pendukung
         /\ formData'.dokumen_pendukung_key = formData.dokumen_pendukung_key
      ]_vars

\* ---------------------------------------------------------------------
\* C28: with no upload in flight, every key of the image store is held by
\* the current form or by exactly one entry of the list.
EntriesHolding(key) ==
    {k \in 1..Len(entries) : entries[k].dokumen_pendukung_key = key}
C28_NoUnreferencedImage ==
    (Mounted /\ uploads = {}) =>
        \A x \in idb :
            \/ formData.dokumen_pendukung_key = x.key
            \/ Cardinality(EntriesHolding(x.key)) = 1

\* ---------------------------------------------------------------------
\* C29: when the load of a restart settles and its save writes the whole
\* list, every stored entry that referred to an image of the image store
\* refers to the same key as before the restart.
C29_ReloadKeepsImageReference ==
    [][(LoadEnds /\ isInitialized /\ lastSave' = "full") =>
         \A k \in 1..Len(parsed) :
             IsImageKey(parsed[k].dokumen_pendukung) =>
                 /\ k <= Len(localStorage'.list)
                 /\ localStorage'.list[k].dokumen_pendukung
                      = parsed[k].dokumen_pendukung]_vars

\* ---------------------------------------------------------------------
\* Two saves of the same list, with room freed in the store in between.
\* safeSaveEntries reads its argument with map (line 90) and slice
\* (line 104), which build new arrays and leave the receiver as it is; it
\* never calls setEntries.
CutBySplice(allEntries, writes) ==
    IF writes = <<>> THEN allEntries
    ELSE SliceLast(allEntries, Len(writes[Len(writes)].value))
KeptByMapAndSlice(allEntries, writes) == allEntries

\* The save effect runs safeSaveEntries(entries)  (lines 139-143, 89-113)
SaveRun ==
    /\ spc = "ready"
    /\ sRes' = safeSaveEntries(sEntries, sStore, sQuota)
    /\ sStore' = sRes'.store
    /\ sEntries' = KeptByMapAndSlice(sEntries, sRes'.writes)
    /\ sOld' = sStore
    /\ spc' = "done"
    /\ UNCHANGED sQuota

\* Room is freed in localStorage (other keys of the origin are removed),
\* and the save effect is due again.
StorageFreed ==
    /\ spc = "done"
    /\ \E q \in (sQuota + 1)..MaxSaveLen : sQuota' = q
    /\ spc' = "ready"
    /\ UNCHANGED <<sEntries, sStore, sOld, sRes>>

ResaveNext ==
    \/ SaveRun /\ UNCHANGED <<cvars, avars, ovars>>
    \/ StorageFreed /\ UNCHANGED <<cvars, avars, ovars>>

SpecResave == SaveInit /\ [][ResaveNext]_vars

\* C30: no save changes the list in memory, whether it wrote all of it, a
\* part of it or nothing; and a save that finds room for the whole list
\* stores every entry of it, also after an earlier save dropped some.
C30_SaveLeavesListAlone ==
    [][/\ sEntries' = sEntries
       /\ (spc' = "done" /\ Len(sEntries) <= sQuota') =>
              sStore' = Item(entriesWithoutImages(sEntries))]_vars
\* a list of three was cut to its last two, room was freed, and the next
\* save stored all three
C30_Witness ==
    /\ spc = "done"
    /\ Len(sEntries) = 3
    /\ sOld = Item(SliceLast(entriesWithoutImages(sEntries), 2))
    /\ sStore = Item(entriesWithoutImages(sEntries))
    /\ sRes.alerts = 0
=========================================================================
